---------------------------- MODULE Spec2Model ----------------------------
(***************************************************************************)
(* A model of the feedback service: the sentiment analysis service         *)
(* (analyzeFeedbackSentiment, validateAnalysisResult, getFallbackAnalysis, *)
(* batchAnalyzeFeedbacks), the feedback controller (createFeedback,        *)
(* getFeedback, updateFeedback, deleteFeedback) and the feedback schema.   *)
(***************************************************************************)
EXTENDS Integers, Sequences, FiniteSets, TLC

(***************************************************************************)
(* JavaScript values.  Every value is a record [t, n, a]: t is the type    *)
(* tag, n the payload of a number (or boolean), a the payload of a string  *)
(* (its sequence of characters; an enum word is one atom) or of an array   *)
(* of strings (its elements).                                              *)
(***************************************************************************)
Undef == [t |-> "undefined", n |-> 0, a |-> <<>>]
Null == [t |-> "null", n |-> 0, a |-> <<>>]
NaN == [t |-> "nan", n |-> 0, a |-> <<>>]
Num(k) == [t |-> "number", n |-> k, a |-> <<>>]
Bool(b) == [t |-> "boolean", n |-> IF b THEN 1 ELSE 0, a |-> <<>>]
Str(s) == [t |-> "string", n |-> 0, a |-> s]
Word(w) == Str(<<w>>)
Arr(s) == [t |-> "array", n |-> 0, a |-> s]
Obj == [t |-> "object", n |-> 0, a |-> <<>>]

\* !x
Falsy(x) ==
    \/ x.t \in {"undefined", "null", "nan"}
    \/ x.t \in {"number", "boolean"} /\ x.n = 0
    \/ x.t = "string" /\ x.a = <<>>

\* x || d
OrDefault(x, d) == IF Falsy(x) THEN d ELSE x

Digits == <<"0", "1", "2", "3", "4", "5", "6", "7", "8", "9">>
Whitespace == {" "}

DigitValue(ch) == (CHOOSE i \in 1..Len(Digits) : Digits[i] = ch) - 1

IsDigit(ch) == \E i \in 1..Len(Digits) : Digits[i] = ch

RECURSIVE DecimalValue(_)
DecimalValue(s) ==
    IF s = <<>> THEN 0
    ELSE 10 * DecimalValue(SubSeq(s, 1, Len(s) - 1)) + DigitValue(s[Len(s)])

\* String.prototype.trim
RECURSIVE TrimLeft(_)
TrimLeft(s) ==
    IF s # <<>> /\ Head(s) \in Whitespace THEN TrimLeft(Tail(s)) ELSE s

RECURSIVE TrimRight(_)
TrimRight(s) ==
    IF s # <<>> /\ s[Len(s)] \in Whitespace
    THEN TrimRight(SubSeq(s, 1, Len(s) - 1)) ELSE s

Trim(s) == TrimRight(TrimLeft(s))

\* ToNumber, as Math.min and Math.max apply it to their arguments: strings
\* of decimal digits and blank strings are numbers, other strings are NaN.
ToNumber(x) ==
    CASE x.t = "number" -> x
      [] x.t = "boolean" -> Num(x.n)
      [] x.t = "null" -> Num(0)
      [] x.t = "string" ->
            IF Trim(x.a) = <<>> THEN Num(0)
            ELSE IF \A i \in 1..Len(x.a) : IsDigit(x.a[i])
                 THEN Num(DecimalValue(x.a)) ELSE NaN
      [] x.t = "array" ->
            IF x.a = <<>> THEN Num(0) ELSE NaN
      [] OTHER -> NaN

\* Math.min(k, x) and Math.max(k, x) for a number k
MathMin(k, x) ==
    LET y == ToNumber(x) IN
    IF y.t = "nan" THEN NaN ELSE Num(IF y.n < k THEN y.n ELSE k)

MathMax(k, x) ==
    LET y == ToNumber(x) IN
    IF y.t = "nan" THEN NaN ELSE Num(IF y.n > k THEN y.n ELSE k)

\* Array.prototype.slice(0, k)
Slice(s, k) == SubSeq(s, 1, IF Len(s) < k THEN Len(s) ELSE k)

UpperChars == <<"A", "B", "C", "D", "E", "F", "G", "H", "I", "J", "K", "L", "M",
                "N", "O", "P", "Q", "R", "S", "T", "U", "V", "W", "X", "Y", "Z">>
LowerChars == <<"a", "b", "c", "d", "e", "f", "g", "h", "i", "j", "k", "l", "m",
                "n", "o", "p", "q", "r", "s", "t", "u", "v", "w", "x", "y", "z">>

\* String.prototype.toLowerCase
ToLowerCase(s) ==
    [i \in 1..Len(s) |->
        IF \E j \in 1..Len(UpperChars) : UpperChars[j] = s[i]
        THEN LowerChars[CHOOSE j \in 1..Len(UpperChars) : UpperChars[j] = s[i]]
        ELSE s[i]]

\* String.prototype.includes
Includes(text, kw) ==
    \E i \in 1..(Len(text) - Len(kw) + 1) :
        \A j \in 1..Len(kw) : text[i + j - 1] = kw[j]

(***************************************************************************)
(* The enums of the feedback schema and of the analysis service.           *)
(***************************************************************************)
validSentiments == {"positive", "neutral", "negative"}
validUrgencies == {"low", "medium", "high", "critical"}

CategoryTaxonomy ==
    {"service_quality", "wait_time", "staff_behavior", "product_features",
     "pricing", "technical_issues", "security_concerns", "user_experience",
     "account_management", "transaction_issues"}

EmotionTaxonomy ==
    {"satisfied", "frustrated", "angry", "happy", "disappointed", "confused",
     "impressed", "anxious", "grateful", "concerned", "excited", "worried"}

IsWordOf(x, S) == x.t = "string" /\ Len(x.a) = 1 /\ x.a[1] \in S

(***************************************************************************)
(* The keywords getFallbackAnalysis looks for, as character sequences.     *)
(***************************************************************************)
Keywords ==
    [ app |-> <<"a", "p", "p">>,
      website |-> <<"w", "e", "b", "s", "i", "t", "e">>,
      online |-> <<"o", "n", "l", "i", "n", "e">>,
      staff |-> <<"s", "t", "a", "f", "f">>,
      rude |-> <<"r", "u", "d", "e">>,
      helpful |-> <<"h", "e", "l", "p", "f", "u", "l">>,
      wait |-> <<"w", "a", "i", "t">>,
      queue |-> <<"q", "u", "e", "u", "e">>,
      slow |-> <<"s", "l", "o", "w">>,
      atm |-> <<"a", "t", "m">>,
      transaction |-> <<"t", "r", "a", "n", "s", "a", "c", "t", "i", "o", "n">>,
      transfer |-> <<"t", "r", "a", "n", "s", "f", "e", "r">>,
      frustrat |-> <<"f", "r", "u", "s", "t", "r", "a", "t">>,
      annoying |-> <<"a", "n", "n", "o", "y", "i", "n", "g">>,
      angry |-> <<"a", "n", "g", "r", "y">>,
      upset |-> <<"u", "p", "s", "e", "t">>,
      happy |-> <<"h", "a", "p", "p", "y">>,
      great |-> <<"g", "r", "e", "a", "t">>,
      satisfied |-> <<"s", "a", "t", "i", "s", "f", "i", "e", "d">>,
      good |-> <<"g", "o", "o", "d">>,
      disappoint |-> <<"d", "i", "s", "a", "p", "p", "o", "i", "n", "t">>,
      urgent |-> <<"u", "r", "g", "e", "n", "t">>,
      immediately |-> <<"i", "m", "m", "e", "d", "i", "a", "t", "e", "l", "y">> ]

(***************************************************************************)
(* An analysis object: the seven fields of the AI's JSON response, of the  *)
(* fallback's result and of a record's analysis block.                     *)
(***************************************************************************)
Analysis(s, sc, c, e, u, ai, cs) ==
    [sentiment |-> s, sentimentScore |-> sc, categories |-> c, emotions |-> e,
     urgency |-> u, actionableInsights |-> ai, confidenceScore |-> cs]

NoFields == Analysis(Undef, Undef, Undef, Undef, Undef, Undef, Undef)

\* What JSON.parse returns: null, a primitive (number, string, boolean), or an
\* object (an array is an object that has none of the seven fields).
JsonNull == [kind |-> "null", f |-> NoFields]
JsonPrimitive == [kind |-> "primitive", f |-> NoFields]
JsonObject(f) == [kind |-> "object", f |-> f]

\* The outcome of a call: it returned value v, or it threw.
Returned(v) == [threw |-> FALSE, value |-> v]
Thrown(v) == [threw |-> TRUE, value |-> v]

\* The decimal digits of a natural number, as `${n}` prints it
RECURSIVE DecimalDigits(_)
DecimalDigits(k) ==
    IF k < 10 THEN <<Digits[k + 1]>>
    ELSE DecimalDigits(k \div 10) \o <<Digits[(k % 10) + 1]>>

\* `${x}` for a rating
TemplateText(x) ==
    IF x.t = "number" /\ x.n >= 0 THEN DecimalDigits(x.n) ELSE <<x.t>>

\* rating >= k, rating <= k, rating === k: false for a rating that is no number
RatingGE(rating, k) == rating.t = "number" /\ rating.n >= k
RatingLE(rating, k) == rating.t = "number" /\ rating.n <= k
RatingIs(rating, k) == rating.t = "number" /\ rating.n = k

\* s with x put in front when cond holds
UnshiftIf(s, cond, x) == IF cond THEN <<x>> \o s ELSE s

\* s with x pushed when cond holds
PushIf(s, cond, x) == IF cond THEN Append(s, x) ELSE s

FallbackConfidence == 60

fallbackSentiment(rating) ==
    IF RatingGE(rating, 4) THEN "positive"
    ELSE IF RatingLE(rating, 2) THEN "negative" ELSE "neutral"

\* the score when only the initial value covers the middle rating
fallbackSentimentScoreInitial(rating) ==
    IF RatingGE(rating, 4) \/ RatingLE(rating, 2) THEN rating.n * 20 ELSE 50

fallbackSentimentScore(rating) ==
    IF RatingGE(rating, 4) \/ RatingLE(rating, 2) THEN rating.n * 20 ELSE 60

fallbackCategories(text) ==
    LET c1 == PushIf(<<>>, Includes(text, Keywords.app) \/ Includes(text, Keywords.website)
                           \/ Includes(text, Keywords.online), "technical_issues")
        c2 == PushIf(c1, Includes(text, Keywords.staff) \/ Includes(text, Keywords.rude)
                         \/ Includes(text, Keywords.helpful), "staff_behavior")
        c3 == PushIf(c2, Includes(text, Keywords.wait) \/ Includes(text, Keywords.queue)
                         \/ Includes(text, Keywords.slow), "wait_time")
        c4 == PushIf(c3, Includes(text, Keywords.atm) \/ Includes(text, Keywords.transaction)
                         \/ Includes(text, Keywords.transfer), "transaction_issues")
    IN  PushIf(c4, Len(c4) = 0, "service_quality")

fallbackEmotions(text, rating) ==
    LET e1 == PushIf(<<>>, Includes(text, Keywords.frustrat) \/ Includes(text, Keywords.annoying),
                     "frustrated")
        e2 == PushIf(e1, Includes(text, Keywords.angry) \/ Includes(text, Keywords.upset), "angry")
        e3 == PushIf(e2, Includes(text, Keywords.happy) \/ Includes(text, Keywords.great), "happy")
        e4 == PushIf(e3, Includes(text, Keywords.satisfied) \/ Includes(text, Keywords.good),
                     "satisfied")
        e5 == PushIf(e4, Includes(text, Keywords.disappoint), "disappointed")
    IN  PushIf(e5, Len(e5) = 0,
               IF RatingGE(rating, 4) THEN "satisfied" ELSE "disappointed")

\* the urgency when the rating is looked at before the keywords
fallbackUrgencyRatingFirst(text, rating) ==
    IF RatingIs(rating, 1) THEN "high"
    ELSE IF RatingIs(rating, 2) THEN "medium"
    ELSE IF Includes(text, Keywords.urgent) \/ Includes(text, Keywords.immediately)
    THEN "high" ELSE "low"

fallbackUrgency(text, rating) ==
    IF RatingIs(rating, 1) \/ Includes(text, Keywords.urgent)
       \/ Includes(text, Keywords.immediately)
    THEN "high"
    ELSE IF RatingIs(rating, 2) THEN "medium" ELSE "low"

\* getFallbackAnalysis(feedbackText, rating): feedbackText.toLowerCase() throws
\* a TypeError when feedbackText is no string.
getFallbackAnalysis(feedbackText, rating) ==
    IF feedbackText.t # "string" THEN Thrown(NoFields)
    ELSE
      LET text == ToLowerCase(feedbackText.a)
          sentiment == fallbackSentiment(rating)
          categories == fallbackCategories(text)
          emotions == fallbackEmotions(text, rating)
      IN  Returned(Analysis(
            Word(sentiment),
            Num(fallbackSentimentScore(rating)),
            Arr(Slice(categories, 3)),
            Arr(Slice(emotions, 3)),
            Word(fallbackUrgency(text, rating)),
            Str(<<"Review this ", sentiment, " feedback regarding ", categories[1],
                  ". Customer rated ">> \o TemplateText(rating) \o <<"/5 stars.">>),
            Num(FallbackConfidence)))

DefaultInsights == Str(<<"Review feedback and determine appropriate action.">>)

\* Math.max(0, Math.min(100, x || d))
ClampScore(x, d) == MathMax(0, MathMin(100, OrDefault(x, Num(d))))

\* a validator that rejects what it cannot accept instead of repairing it
validateAnalysisResultStrict(analysis) ==
    LET f == analysis.f IN
    IF analysis.kind # "object" THEN Thrown(analysis)
    ELSE IF ~IsWordOf(f.sentiment, validSentiments)
            \/ ~IsWordOf(f.urgency, validUrgencies)
            \/ f.categories.t # "array" \/ f.emotions.t # "array"
            \/ f.actionableInsights.t # "string"
            \/ f.sentimentScore.t # "number" \/ f.confidenceScore.t # "number"
    THEN Thrown(analysis)
    ELSE Returned(JsonObject(Analysis(
            f.sentiment, MathMax(0, MathMin(100, f.sentimentScore)), f.categories,
            f.emotions, f.urgency, f.actionableInsights,
            MathMax(0, MathMin(100, f.confidenceScore)))))

\* validateAnalysisResult(analysis): reading a property of null throws; a
\* property of a primitive reads as undefined and an assignment to it is
\* dropped; actionableInsights.trim() throws when the field is truthy and no
\* string.  The object given is modified in place and is the value returned;
\* at a throw the value of the outcome is the object as modified until then.
validateAnalysisResult(analysis) ==
    LET f == analysis.f
        sentiment == IF IsWordOf(f.sentiment, validSentiments) THEN f.sentiment
                     ELSE Word("neutral")
        sentimentScore == ClampScore(f.sentimentScore, 50)
        categories == IF f.categories.t = "array" THEN f.categories ELSE Arr(<<>>)
        emotions == IF f.emotions.t = "array" THEN f.emotions ELSE Arr(<<>>)
        urgency == IF IsWordOf(f.urgency, validUrgencies) THEN f.urgency ELSE Word("low")
    IN
    IF analysis.kind = "null" THEN Thrown(analysis)
    ELSE IF ~Falsy(f.actionableInsights) /\ f.actionableInsights.t # "string"
    THEN Thrown(JsonObject(Analysis(sentiment, sentimentScore, categories, emotions,
                                    urgency, f.actionableInsights, f.confidenceScore)))
    ELSE IF analysis.kind = "primitive" THEN Returned(analysis)
    ELSE Returned(JsonObject(Analysis(
            sentiment, sentimentScore, categories, emotions, urgency,
            IF Falsy(f.actionableInsights) \/ Trim(f.actionableInsights.a) = <<>>
            THEN DefaultInsights ELSE f.actionableInsights,
            ClampScore(f.confidenceScore, 75))))


(***************************************************************************)
(* The inputs: comments as character sequences, ratings, and the outcomes  *)
(* of the request to the external AI service.                              *)
(***************************************************************************)
MinCommentLength == 10
MaxCommentLength == 1000

\* "The app is slow"
txtAppSlow ==
    <<"T", "h", "e", " ", "a", "p", "p", " ", "i", "s", " ", "s", "l", "o",
    "w">>
\* "Happy, GREAT staff!"
txtHappyStaff ==
    <<"H", "a", "p", "p", "y", ",", " ", "G", "R", "E", "A", "T", " ", "s",
    "t", "a", "f", "f", "!">>
\* "URGENT: ATM queue, rude staff on website"
txtUrgentAtm ==
    <<"U", "R", "G", "E", "N", "T", ":", " ", "A", "T", "M", " ", "q", "u",
    "e", "u", "e", ",", " ", "r", "u", "d", "e", " ", "s", "t", "a", "f",
    "f", " ", "o", "n", " ", "w", "e", "b", "s", "i", "t", "e">>
\* "Nothing to say"
txtNothing ==
    <<"N", "o", "t", "h", "i", "n", "g", " ", "t", "o", " ", "s", "a", "y">>
\* "Too brief"
txtTooShort ==
    <<"T", "o", "o", " ", "b", "r", "i", "e", "f">>
\* "   padded    "
txtPadded ==
    <<" ", " ", " ", "p", "a", "d", "d", "e", "d", " ", " ", " ", " ">>
\* "Angry, upset, annoying and disappointing"
txtUpset ==
    <<"A", "n", "g", "r", "y", ",", " ", "u", "p", "s", "e", "t", ",", " ",
    "a", "n", "n", "o", "y", "i", "n", "g", " ", "a", "n", "d", " ", "d",
    "i", "s", "a", "p", "p", "o", "i", "n", "t", "i", "n", "g">>
\* a comment one character longer than the schema allows
txtLong == [i \in 1..(MaxCommentLength + 1) |-> "a"]

\* "Please fix this Immediately"
txtImmediately ==
    <<"P", "l", "e", "a", "s", "e", " ", "f", "i", "x", " ", "t", "h", "i",
    "s", " ", "I", "m", "m", "e", "d", "i", "a", "t", "e", "l", "y">>

\* The comments a request or a batch item may carry; the ninth is a missing one.
CommentTable ==
    <<Str(txtAppSlow), Str(txtHappyStaff), Str(txtUrgentAtm), Str(txtNothing),
      Str(txtUpset), Str(txtTooShort), Str(txtPadded), Str(txtLong), Undef,
      Str(txtImmediately)>>

CommentIds == 1..Len(CommentTable)

Ratings == {Num(k) : k \in 0..6} \cup {Undef}

SentimentOptions == {Word("positive"), Word("negative"), Word("mixed"), Undef}
ScoreOptions ==
    {Undef, Num(0), Num(85), Num(0 - 5), Num(150), Str(<<"8", "5">>),
     Str(<<"h", "i", "g", "h">>)}
CategoriesOptions ==
    {Undef, Arr(<<>>), Arr(<<"pricing", "wait_time">>), Arr(<<"billing">>),
     Arr(<<"pricing", "wait_time", "staff_behavior", "user_experience">>),
     Word("pricing")}
EmotionsOptions ==
    {Undef, Null, Arr(<<>>), Arr(<<"angry", "worried">>), Arr(<<"furious">>),
     Arr(<<"angry", "worried", "anxious", "confused">>), Word("angry")}
UrgencyOptions == {Word("critical"), Word("medium"), Word("urgent"), Undef}
InsightsOptions ==
    {Undef, Str(<<" ", " ">>), Str(<<"Escalate to the card operations team.">>),
     Num(5)}
ConfidenceOptions == {Undef, Num(0), Num(90), Num(101)}

\* A response of the expected shape
GoodResponse ==
    Analysis(Word("negative"), Num(25), Arr(<<"transaction_issues">>),
             Arr(<<"frustrated">>), Word("critical"),
             Str(<<"Escalate to the card operations team.">>), Num(90))

\* Objects that deviate from the expected shape in one field
OneFieldOff ==
    {[GoodResponse EXCEPT !.sentiment = v] : v \in SentimentOptions}
    \cup {[GoodResponse EXCEPT !.sentimentScore = v] : v \in ScoreOptions}
    \cup {[GoodResponse EXCEPT !.categories = v] : v \in CategoriesOptions}
    \cup {[GoodResponse EXCEPT !.emotions = v] : v \in EmotionsOptions}
    \cup {[GoodResponse EXCEPT !.urgency = v] : v \in UrgencyOptions}
    \cup {[GoodResponse EXCEPT !.actionableInsights = v] : v \in InsightsOptions}
    \cup {[GoodResponse EXCEPT !.confidenceScore = v] : v \in ConfidenceOptions}

\* The outcomes of openai.chat.completions.create and of reading its content:
\* the promise rejects (transport error, or the client's own timeout), the
\* completion has no choices, the content is no JSON, or it parses to json.
Reply(kind, json) == [kind |-> kind, json |-> json]

FailureReplies ==
    {Reply(k, JsonNull) : k \in {"reject", "timeout", "nochoices", "nonjson"}}

JsonReplies ==
    {Reply("json", JsonObject(f)) : f \in OneFieldOff \cup {GoodResponse, NoFields}}
    \cup {Reply("json", JsonNull), Reply("json", JsonPrimitive)}

Replies == FailureReplies \cup JsonReplies

(***************************************************************************)
(* analyzeFeedbackSentiment(feedbackText, rating, serviceType).  Before    *)
(* the request, feedbackText.substring throws when feedbackText is no      *)
(* string; the catch block then runs getFallbackAnalysis.  After the       *)
(* await, every throw of the try block goes to the same catch block.       *)
(***************************************************************************)
\* getFallbackAnalysis over the comments and ratings of the model, tabulated
FallbackAnalyses ==
    [c \in CommentIds |->
        [rating \in Ratings |-> getFallbackAnalysis(CommentTable[c], rating)]]

\* whether the call gets as far as issuing the request
IssuesRequest(feedbackText) == feedbackText.t = "string"

\* the try block after the await, given the request's outcome: it throws on a
\* rejection, on completion.choices[0] of an empty list, in JSON.parse, on
\* analysis.sentiment of null, on analysis.emotions.join when emotions is no
\* array, and wherever validateAnalysisResult throws.
TryBlock(reply) ==
    IF reply.kind # "json" \/ reply.json.kind = "null"
       \/ reply.json.f.emotions.t # "array"
    THEN Thrown(NoFields)
    ELSE LET v == validateAnalysisResult(reply.json)
         IN  IF v.threw THEN Thrown(NoFields) ELSE Returned(v.value.f)

\* the call without its catch block
analyzeFeedbackSentimentNoCatch(c, rating, reply) ==
    IF ~IssuesRequest(CommentTable[c]) THEN Thrown(NoFields) ELSE TryBlock(reply)

\* the call on comment c of CommentTable, given the outcome of its request
analyzeFeedbackSentiment(c, rating, reply) ==
    IF ~IssuesRequest(CommentTable[c]) THEN FallbackAnalyses[c][rating]
    ELSE LET t == TryBlock(reply)
         IN  IF t.threw THEN FallbackAnalyses[c][rating] ELSE t

(***************************************************************************)
(* The feedback schema: a document, its defaults and its validators.      *)
(***************************************************************************)
ServiceTypes ==
    {"Branch Visit", "Mobile App", "ATM Service", "Online Banking",
     "Customer Service Call", "USSD Banking", "POS Transaction"}

Statuses == {"pending", "in_progress", "resolved", "closed"}

MinRating == 1
MaxRating == 5
MinScore == 0
MaxScore == 100

\* new Feedback({...req.body, status: 'pending'}): the schema's defaults fill
\* the analysis block (arrays default to [], urgency to 'low') and createdAt
\* (Date.now). Dates are counted in hours from the start of a run, and the
\* requests of a run all fall in its first hour.
NewFeedback(id, body) ==
    [id |-> id, comment |-> body.comment, rating |-> body.rating,
     serviceType |-> body.serviceType, branch |-> body.branch,
     status |-> "pending",
     analysis |-> Analysis(Undef, Undef, Arr(<<>>), Arr(<<>>), Word("low"),
                           Undef, Undef),
     analysed |-> FALSE,
     createdAt |-> 0]

\* feedback.comment: the schema trims a string comment
DocComment(d) ==
    LET raw == CommentTable[d.comment]
    IN  IF raw.t = "string" THEN Str(Trim(raw.a)) ELSE raw

ValidRating(x) == x.t = "number" /\ x.n >= MinRating /\ x.n <= MaxRating

ValidCommentText(x) ==
    /\ x.t = "string"
    /\ Len(x.a) >= MinCommentLength
    /\ Len(x.a) <= MaxCommentLength

ValidScore(x) ==
    x.t = "undefined" \/ (x.t = "number" /\ x.n >= MinScore /\ x.n <= MaxScore)

ValidEnum(x, S) == x.t = "undefined" \/ IsWordOf(x, S)

ValidEnumArray(x, S) == x.t = "array" /\ \A i \in 1..Len(x.a) : x.a[i] \in S

\* whether each comment of the table passes the comment validators
CommentValid ==
    [c \in CommentIds |->
        ValidCommentText(IF CommentTable[c].t = "string"
                         THEN Str(Trim(CommentTable[c].a)) ELSE CommentTable[c])]

\* the validators feedback.save() runs
ValidFeedback(d) ==
    /\ ValidRating(d.rating)
    /\ CommentValid[d.comment]
    /\ ValidEnum(d.serviceType, ServiceTypes)
    /\ (d.serviceType = Word("Branch Visit") => ~Falsy(d.branch))
    /\ d.status \in Statuses
    /\ ValidEnum(d.analysis.sentiment, validSentiments)
    /\ ValidScore(d.analysis.sentimentScore)
    /\ ValidEnumArray(d.analysis.categories, CategoryTaxonomy)
    /\ ValidEnumArray(d.analysis.emotions, EmotionTaxonomy)
    /\ IsWordOf(d.analysis.urgency, validUrgencies)
    /\ ValidScore(d.analysis.confidenceScore)

VARIABLES
    vPc, vInput, vResult,                       \* a call of validateAnalysisResult
    aPc, aComment, aRating, aReply, aResult,    \* a call of analyzeFeedbackSentiment
    hPc, hDoc, hRes,                            \* the createFeedback requests
    store, nextId, response, report,            \* the record store, the last answer
    classifyCount, attachCount,                 \* per record: classifier runs, writes
    inflight,                                   \* the requests to the AI service
    bPc, bItems, bI, results, successCount, failCount,  \* batchAnalyzeFeedbacks
    bTimer, now, issuedAt                       \* the clock and the batch's timer

validateVars == <<vPc, vInput, vResult>>
analyzeVars == <<aPc, aComment, aRating, aReply, aResult>>
handlerVars == <<hPc, hDoc, hRes>>
storeVars == <<store, nextId, response, report>>
countVars == <<classifyCount, attachCount>>
batchVars == <<bPc, bItems, bI, results, successCount, failCount, bTimer, issuedAt>>

vars == <<validateVars, analyzeVars, handlerVars, storeVars, countVars, inflight,
          batchVars, now>>

(***************************************************************************)
(* validateAnalysisResult applied to an input drawn from the field options *)
(***************************************************************************)
ValidateInputs ==
    {JsonObject(Analysis(s, sc, c, e, u, ai, cs)) :
        s \in SentimentOptions, sc \in ScoreOptions, c \in CategoriesOptions,
        e \in {Undef, Arr(<<"angry", "worried">>)}, u \in UrgencyOptions,
        ai \in InsightsOptions, cs \in ConfidenceOptions}
    \cup {JsonNull, JsonPrimitive}

NoReply == Reply("none", JsonNull)

ValidateIdle ==
    /\ vPc = "idle" /\ vInput = JsonNull /\ vResult = Returned(JsonNull)

AnalyzeIdle ==
    /\ aPc = "idle" /\ aComment = 1 /\ aRating = Undef /\ aReply = NoReply
    /\ aResult = Returned(NoFields)

ValidateCall ==
    /\ vPc = "input"
    /\ vResult' = validateAnalysisResult(vInput)
    /\ vPc' = "done"
    /\ UNCHANGED <<vInput, analyzeVars, handlerVars, storeVars, countVars, inflight,
                   batchVars, now>>

(***************************************************************************)
(* One call of analyzeFeedbackSentiment                                    *)
(***************************************************************************)
AnalyzeCall ==
    /\ aPc = "called"
    /\ IF IssuesRequest(CommentTable[aComment])
       THEN aPc' = "awaiting" /\ UNCHANGED aResult
       ELSE LET r == analyzeFeedbackSentiment(aComment, aRating, NoReply)
            IN  /\ aResult' = r
                /\ aPc' = IF r.threw THEN "threw" ELSE "returned"
    /\ UNCHANGED <<validateVars, aComment, aRating, aReply, handlerVars, storeVars,
                   countVars, inflight, batchVars, now>>

AnalyzeSettle(reply) ==
    /\ aPc = "awaiting"
    /\ aReply' = reply
    /\ LET r == analyzeFeedbackSentiment(aComment, aRating, reply)
       IN  /\ aResult' = r
           /\ aPc' = IF r.threw THEN "threw" ELSE "returned"
    /\ UNCHANGED <<validateVars, aComment, aRating, handlerVars, storeVars, countVars,
                   inflight, batchVars, now>>

(***************************************************************************)
(* The feedback controller: createFeedback requests in progress, and the   *)
(* operations on stored records.                                           *)
(***************************************************************************)
NumHandlers == 2
MaxRequests == 2

Handlers == 1..NumHandlers
Ids == 1..MaxRequests

Body(c, rating, serviceType, branch) ==
    [comment |-> c, rating |-> rating, serviceType |-> serviceType, branch |-> branch]

\* a valid submission, and the submissions that differ from it in one field
BaseBody == Body(1, Num(2), Word("Mobile App"), Undef)

CreateBodies ==
    {BaseBody}
    \cup {[BaseBody EXCEPT !.comment = c] : c \in {6, 7, 8, 9}}
    \cup {[BaseBody EXCEPT !.rating = r] :
            r \in {Num(0), Num(1), Num(3), Num(5), Num(6), Undef}}
    \cup {[BaseBody EXCEPT !.serviceType = t] :
            t \in {Undef, Word("Telepathy"), Word("Branch Visit")}}
    \cup {Body(2, Num(5), Word("Branch Visit"), Word("Ikeja"))}

ServerReplies ==
    {Reply("reject", JsonNull),
     Reply("json", JsonObject(GoodResponse)),
     Reply("json", JsonObject([GoodResponse EXCEPT !.categories = Arr(<<>>),
                                                   !.emotions = Arr(<<>>)])),
     Reply("json", JsonObject([GoodResponse EXCEPT
                                 !.sentimentScore = Str(<<"h", "i", "g", "h">>)]))}

\* the bodies of the PATCH requests: one field each
Update(field, value) == [field |-> field, value |-> value]

UpdateBodies ==
    {Update("status", Word("closed")), Update("sentiment", Word("positive")),
     Update("sentiment", Word("mixed")), Update("urgency", Word("critical"))}

NoDoc == NewFeedback(0, BaseBody)
Res(code, error) == [code |-> code, error |-> error]
NoRes == Res(0, "none")
Response(op, code) == [op |-> op, code |-> code]
\* a request to the AI service: issued by createFeedback request `by`, or by
\* the batch for its item `item`
Request(kind, by, item) == [kind |-> kind, by |-> by, item |-> item]

ServerIdle ==
    /\ hPc = [h \in Handlers |-> "idle"]
    /\ hDoc = [h \in Handlers |-> NoDoc]
    /\ hRes = [h \in Handlers |-> NoRes]
    /\ store = {}
    /\ nextId = 1
    /\ response = Response("none", 0)
    /\ report = <<>>
    /\ classifyCount = [id \in Ids |-> 0]
    /\ attachCount = [id \in Ids |-> 0]
    /\ inflight = {}

\* createFeedback up to its first await: the document is built, then
\* feedback.comment.substring throws when the comment is missing (the outer
\* catch answers 400), else analyzeFeedbackSentiment is called and issues
\* its request.
CreateBegin(h, body) ==
    /\ hPc[h] = "idle"
    /\ nextId <= MaxRequests
    /\ nextId' = nextId + 1
    /\ hDoc' = [hDoc EXCEPT ![h] = NewFeedback(nextId, body)]
    /\ IF DocComment(NewFeedback(nextId, body)).t # "string"
       THEN /\ hPc' = [hPc EXCEPT ![h] = "done"]
            /\ hRes' = [hRes EXCEPT ![h] = Res(400, "TypeError")]
            /\ UNCHANGED <<classifyCount, inflight>>
       ELSE /\ hPc' = [hPc EXCEPT ![h] = "awaitAI"]
            /\ hRes' = [hRes EXCEPT ![h] = NoRes]
            /\ classifyCount' = [classifyCount EXCEPT ![nextId] = @ + 1]
            /\ inflight' = inflight \cup {Request("create", h, 0)}
    /\ UNCHANGED <<validateVars, analyzeVars, store, response, report, attachCount,
                   batchVars, now>>

\* the analysis attached to the document (Step 3)
Attach(d, a) ==
    [d EXCEPT !.analysis = [a EXCEPT !.emotions = OrDefault(a.emotions, Arr(<<>>))],
              !.analysed = TRUE]

\* the request settles: analyzeFeedbackSentiment returns (or throws, and the
\* inner catch leaves the document without analysis)
CreateSettle(h, reply) ==
    /\ hPc[h] = "awaitAI"
    /\ Request("create", h, 0) \in inflight
    /\ inflight' = inflight \ {Request("create", h, 0)}
    /\ LET r == analyzeFeedbackSentiment(hDoc[h].comment, hDoc[h].rating, reply)
       IN  IF r.threw
           THEN UNCHANGED <<hDoc, attachCount>>
           ELSE /\ hDoc' = [hDoc EXCEPT ![h] = Attach(@, r.value)]
                /\ attachCount' = [attachCount EXCEPT ![hDoc[h].id] = @ + 1]
    /\ hPc' = [hPc EXCEPT ![h] = "saving"]
    /\ UNCHANGED <<validateVars, analyzeVars, hRes, storeVars, classifyCount,
                   batchVars, now>>

\* await feedback.save() (Step 4) and the answer (Step 6, or the outer catch)
CreateSave(h) ==
    /\ hPc[h] = "saving"
    /\ IF ValidFeedback(hDoc[h])
       THEN /\ store' = store \cup {hDoc[h]}
            /\ hRes' = [hRes EXCEPT ![h] = Res(201, "none")]
       ELSE /\ UNCHANGED store
            /\ hRes' = [hRes EXCEPT ![h] = Res(400, "ValidationError")]
    /\ hPc' = [hPc EXCEPT ![h] = "done"]
    /\ UNCHANGED <<validateVars, analyzeVars, hDoc, nextId, response, report,
                   countVars, inflight, batchVars, now>>

\* the request is over
CreateFinish(h) ==
    /\ hPc[h] = "done"
    /\ hPc' = [hPc EXCEPT ![h] = "idle"]
    /\ hDoc' = [hDoc EXCEPT ![h] = NoDoc]
    /\ hRes' = [hRes EXCEPT ![h] = NoRes]
    /\ UNCHANGED <<validateVars, analyzeVars, storeVars, countVars, inflight,
                   batchVars, now>>

\* what a find query would see without the hook
VisibleClosedToo(id) == {d \in store : d.id = id}

\* what a find query sees: the pre(/^find/) hook hides closed records
Visible(id) == {d \in store : d.id = id /\ d.status # "closed"}

\* the validators runValidators applies to the updated path
ValidUpdate(u) ==
    CASE u.field = "status" -> IsWordOf(u.value, Statuses)
      [] u.field = "sentiment" -> ValidEnum(u.value, validSentiments)
      [] u.field = "urgency" -> IsWordOf(u.value, validUrgencies)
      [] u.field = "rating" -> ValidRating(u.value)
      [] OTHER -> TRUE

ApplyUpdate(d, u) ==
    CASE u.field = "status" -> [d EXCEPT !.status = u.value.a[1]]
      [] u.field = "sentiment" -> [d EXCEPT !.analysis.sentiment = u.value]
      [] u.field = "urgency" -> [d EXCEPT !.analysis.urgency = u.value]
      [] u.field = "rating" -> [d EXCEPT !.rating = u.value]
      [] OTHER -> d

\* an update that runs the classifier again on the record it changes
updateFeedbackReclassify(id, u) ==
    /\ IF Visible(id) # {} /\ ValidUpdate(u)
       THEN /\ store' = (store \ Visible(id))
                        \cup {Attach(ApplyUpdate(d, u),
                                     FallbackAnalyses[d.comment][d.rating].value) :
                              d \in Visible(id)}
            /\ classifyCount' = [classifyCount EXCEPT ![id] = @ + 1]
            /\ response' = Response("update", 200)
       ELSE /\ UNCHANGED <<store, classifyCount>>
            /\ response' = Response("update", 404)
    /\ report' = <<>>
    /\ UNCHANGED <<validateVars, analyzeVars, handlerVars, nextId, attachCount,
                   inflight, batchVars, now>>

\* Feedback.findByIdAndUpdate(id, req.body, {new: true, runValidators: true})
updateFeedback(id, u) ==
    /\ IF Visible(id) # {} /\ ValidUpdate(u)
       THEN /\ store' = (store \ Visible(id)) \cup {ApplyUpdate(d, u) : d \in Visible(id)}
            /\ response' = Response("update", 200)
       ELSE /\ UNCHANGED store
            /\ response' = Response("update", 404)
    /\ report' = <<>>
    /\ UNCHANGED <<validateVars, analyzeVars, handlerVars, nextId, countVars,
                   inflight, batchVars, now>>

\* Feedback.findByIdAndDelete(id)
deleteFeedback(id) ==
    /\ store' = store \ Visible(id)
    /\ response' = Response("delete", IF Visible(id) # {} THEN 204 ELSE 404)
    /\ report' = <<>>
    /\ UNCHANGED <<validateVars, analyzeVars, handlerVars, nextId, countVars,
                   inflight, batchVars, now>>

\* the virtual isUrgent
isUrgent(d) == d.analysis.urgency = Word("high") \/ d.analysis.urgency = Word("critical")

\* immediate action for critical urgency alone
needsImmediateActionCriticalOnly(d) == d.analysis.urgency = Word("critical")

\* the virtual needsImmediateAction
needsImmediateAction(d) ==
    \/ d.analysis.urgency = Word("critical")
    \/ (d.analysis.sentiment = Word("negative") /\ RatingLE(d.rating, 2))

\* dates are in hours
HoursPerDay == 24

\* the virtual daysSinceSubmission, the current hour being hour 0
daysSinceSubmission(d) == (0 - d.createdAt) \div HoursPerDay

\* overdue from the threshold on
isOverdueFromThreshold(d) ==
    LET days == daysSinceSubmission(d)
    IN  IF d.analysis.urgency = Word("critical") THEN days >= 1
        ELSE IF d.analysis.urgency = Word("high") THEN days >= 2
        ELSE IF d.analysis.urgency = Word("medium") THEN days >= 5
        ELSE days >= 14

isOverdue(d) ==
    LET days == daysSinceSubmission(d)
    IN  IF d.analysis.urgency = Word("critical") THEN days > 1
        ELSE IF d.analysis.urgency = Word("high") THEN days > 2
        ELSE IF d.analysis.urgency = Word("medium") THEN days > 5
        ELSE days > 14

\* the document as the answer shows it, with the virtuals
toJSON(d) ==
    [id |-> d.id, urgency |-> d.analysis.urgency, createdAt |-> d.createdAt,
     daysSinceSubmission |-> daysSinceSubmission(d), isOverdue |-> isOverdue(d),
     isUrgent |-> isUrgent(d), needsImmediateAction |-> needsImmediateAction(d)]

\* Feedback.findById(id)
getFeedback(id) ==
    /\ response' = Response("get", IF Visible(id) # {} THEN 200 ELSE 404)
    /\ report' = IF Visible(id) # {} THEN <<toJSON(CHOOSE d \in Visible(id) : TRUE)>> ELSE <<>>
    /\ UNCHANGED <<validateVars, analyzeVars, handlerVars, store, nextId,
                   countVars, inflight, batchVars, now>>

\* every record, closed or not
OpenAndClosed(records) == records

\* what an aggregation or a find query sees: the pre('aggregate') and
\* pre(/^find/) hooks add the condition status # 'closed'
Open(records) == {d \in records : d.status # "closed"}

\* the words the reports sort, in the ascending order of a $sort on strings
StringOrder ==
    <<"ATM", "Abuja", "Branch Visit", "Ikeja", "Lekki", "Mobile App", "critical",
      "high", "low", "medium", "negative", "neutral", "positive">>

Rank(w) == CHOOSE i \in 1..Len(StringOrder) : StringOrder[i] = w

\* the elements of S in ascending order of key, as a $sort stage leaves them
RECURSIVE SortAsc(_, _)
SortAsc(S, key) ==
    IF S = {} THEN <<>>
    ELSE LET first == CHOOSE x \in S : \A y \in S : key[x] <= key[y]
         IN  <<first>> \o SortAsc(S \ {first}, key)

\* Array.prototype.sort with a comparator a - b on key: ascending and stable
StableSort(s, key) ==
    LET at == SortAsc(1..Len(s), [i \in 1..Len(s) |-> key[s[i]] * (Len(s) + 1) + i])
    IN  [i \in 1..Len(s) |-> s[at[i]]]

urgencyOrder == [critical |-> 0, high |-> 1, medium |-> 2, low |-> 3]

\* the rows in the order of the $sort stage alone
UrgencyRowsBySortStage(records) ==
    LET matched == {d \in Open(records) :
                      d.status # "closed" /\ d.analysis.urgency.t \notin {"undefined", "null"}}
        row(u) == [urgency |-> u,
                   count |-> Cardinality({d \in matched : d.analysis.urgency = Word(u)})]
        grouped == {row(d.analysis.urgency.a[1]) : d \in matched}
    IN  SortAsc(grouped, [r \in grouped |-> Rank(r.urgency)])

\* the rows of getUrgencyDashboard: the open records with an urgency, grouped
\* by urgency, sorted by the $sort stage and then by urgencyOrder
UrgencyRows(records) ==
    LET matched == {d \in Open(records) :
                      d.status # "closed" /\ d.analysis.urgency.t \notin {"undefined", "null"}}
        row(u) == [urgency |-> u,
                   count |-> Cardinality({d \in matched : d.analysis.urgency = Word(u)})]
        grouped == {row(d.analysis.urgency.a[1]) : d \in matched}
        sorted == SortAsc(grouped, [r \in grouped |-> Rank(r.urgency)])
    IN  StableSort(sorted, [r \in grouped |-> urgencyOrder[r.urgency]])

\* the answer of a report: its query, and the figures beside the rows
Answer(op, query, summary) == [op |-> op, code |-> 200, query |-> query, summary |-> summary]

\* the records find() or a $match stage passes for the filters the query
\* gives: the open ones that have the value of each filter given
Matching(records, filters) ==
    {d \in Open(records) : \A f \in DOMAIN filters : Falsy(filters[f]) \/ d[f] = filters[f]}

\* the sum of f over the set S
RECURSIVE SumOver(_, _)
SumOver(S, f) ==
    IF S = {} THEN 0
    ELSE LET x == CHOOSE x \in S : TRUE IN f[x] + SumOver(S \ {x}, f)

\* the digits after the last one kept are dropped
ToFixedTruncated(num, den, scale) ==
    LET abs == IF num < 0 THEN 0 - num ELSE num
        n == (abs * scale) \div den
    IN  IF num < 0 THEN 0 - n ELSE n

\* parseFloat((num / den).toFixed(digits)), in units of 1/scale where scale
\* is 10^digits: the nearest, and of two equally near the one further from 0
ToFixed(num, den, scale) ==
    LET abs == IF num < 0 THEN 0 - num ELSE num
        n == (2 * abs * scale + den) \div (2 * den)
    IN  IF num < 0 THEN 0 - n ELSE n

\* new Date(Date.now() - days * 24 * 60 * 60 * 1000), in hours
DefaultDays == 30

Since(days) == 0 - days * HoursPerDay

\* .limit(n)
DefaultLimit == 10

Limit(s, n) == SubSeq(s, 1, IF n < Len(s) THEN n ELSE Len(s))

\* .sort({ urgency: 1, createdAt: -1 }): by the urgency string ascending, the
\* newest of one urgency first
SortUrgencyCreated(S) ==
    LET newest == SortAsc(S, [d \in S |-> 0 - d.createdAt])
    IN  StableSort(newest, [d \in S |-> Rank(d.analysis.urgency.a[1])])

\* .select(...): the fields of a row
InsightRow(d) ==
    [id |-> d.id, actionableInsights |-> d.analysis.actionableInsights,
     urgency |-> d.analysis.urgency, serviceType |-> d.serviceType,
     createdAt |-> d.createdAt]

HasInsights(d) ==
    d.analysis.actionableInsights.t # "undefined" /\ d.analysis.actionableInsights # Str(<<>>)

InsightsQuery(limit, urgency, serviceType) ==
    [limit |-> limit, urgency |-> urgency, serviceType |-> serviceType]

getActionableInsights(records, q) ==
    LET limit == IF q.limit.t = "undefined" THEN DefaultLimit ELSE q.limit.n
        withUrgency(d) == HasInsights(d) /\ (Falsy(q.urgency) \/ d.analysis.urgency = q.urgency)
        found == {d \in Matching(records, [serviceType |-> q.serviceType]) : withUrgency(d)}
        insights == Limit(SortUrgencyCreated(found), limit)
    IN  /\ report' = [i \in 1..Len(insights) |-> InsightRow(insights[i])]
        /\ response' = Answer("insights", q, [count |-> Len(insights)])
        /\ UNCHANGED <<validateVars, analyzeVars, handlerVars, store, nextId, countVars,
                       inflight, batchVars, now>>

\* the detractors of the Net Promoter Score: the ratings of 3 and less
DetractorBelowThree(f) == RatingLE(f.rating, 2)

Detractor(f) == RatingLE(f.rating, 3)

\* $round: num / den in units of 1/scale, to the nearest, and of two equally
\* near the even one (num >= 0)
RoundHalfEven(num, den, scale) ==
    LET q == (num * scale) \div den
        r == (num * scale) % den
    IN  IF 2 * r > den \/ (2 * r = den /\ q % 2 = 1) THEN q + 1 ELSE q

\* $round of an $avg: null when no document of the group has a number
Avg(sum, n, scale) == IF n = 0 THEN Null ELSE Num(RoundHalfEven(sum, n, scale))

\* $unwind: the documents d yields for the element x of its array
Unwound(d, field, x) ==
    Cardinality({i \in DOMAIN d.analysis[field].a : d.analysis[field].a[i] = x})

\* $group: the accumulators over the documents of g, each counted w[d] times
Totals(g, w) ==
    LET withScore == {d \in g : d.analysis.sentimentScore.t = "number"}
        having(S) == SumOver(S, [d \in S |-> w[d]])
    IN  [count |-> having(g),
         ratingSum |-> SumOver(g, [d \in g |-> w[d] * d.rating.n]),
         scored |-> having(withScore),
         scoreSum |-> SumOver(withScore, [d \in withScore |->
                                            w[d] * d.analysis.sentimentScore.n]),
         positiveCount |-> having({d \in g : d.analysis.sentiment = Word("positive")}),
         negativeCount |-> having({d \in g : d.analysis.sentiment = Word("negative")}),
         neutralCount |-> having({d \in g : d.analysis.sentiment = Word("neutral")}),
         highUrgencyCount |->
             having({d \in g : d.analysis.urgency \in {Word("high"), Word("critical")}})]

Once(g) == [d \in g |-> 1]

\* the $switch on the average sentiment score of a group
performanceRating(t) ==
    IF t.scored = 0 THEN "Critical"
    ELSE IF t.scoreSum >= 80 * t.scored THEN "Excellent"
    ELSE IF t.scoreSum >= 70 * t.scored THEN "Good"
    ELSE IF t.scoreSum >= 60 * t.scored THEN "Average"
    ELSE IF t.scoreSum >= 50 * t.scored THEN "Needs Attention"
    ELSE "Critical"

\* $sort descending on a number, null last: every order of the rows of S it
\* can leave, rows of one key in any order
SortKey(v) == IF v.t = "number" THEN v.n ELSE 0 - 1

RECURSIVE SortedDesc(_, _)
SortedDesc(S, key) ==
    IF S = {} THEN {<<>>}
    ELSE UNION {{<<x>> \o rest : rest \in SortedDesc(S \ {x}, key)} :
                  x \in {y \in S : \A z \in S : key[y] >= key[z]}}

\* Feedback.find() of a request without query parameters: the records the
\* hook lets through, in an order the query helpers choose
getAllFeedback ==
    /\ response' = Response("list", 200)
    /\ LET feedbacks == {toJSON(d) : d \in {e \in store : Visible(e.id) # {}}}
       IN  report' \in SortedDesc(feedbacks, [r \in feedbacks |-> 0])
    /\ UNCHANGED <<validateVars, analyzeVars, handlerVars, store, nextId,
                   countVars, inflight, batchVars, now>>

\* the query of a report that takes a date range; a date is a number of hours
RangeQuery(startDate, endDate, serviceType, branch) ==
    [startDate |-> startDate, endDate |-> endDate, serviceType |-> serviceType,
     branch |-> branch]

\* matchStage.createdAt: the range the query gives, and with no date given
\* the last defaultDays days, or no condition where the report has no default
InRange(d, q, defaultDays) ==
    IF ~Falsy(q.startDate) \/ ~Falsy(q.endDate)
    THEN /\ Falsy(q.startDate) \/ d.createdAt >= q.startDate.n
         /\ Falsy(q.endDate) \/ d.createdAt <= q.endDate.n
    ELSE defaultDays.t = "number" => d.createdAt >= Since(defaultDays.n)

Exists(v) == v.t \notin {"undefined", "null"}

\* a share of the total, in hundredths of a percent
PercentageWhole(count, total) == IF total > 0 THEN 100 * ToFixed(count * 100, total, 1) ELSE 0

Percentage(count, total) == IF total > 0 THEN ToFixed(count * 100, total, 100) ELSE 0

\* percentage, avgRating in hundredths, avgSentimentScore in tenths
getSentimentOverview(records, q) ==
    LET analysed(d) == Exists(d.analysis.sentiment) /\ InRange(d, q, Num(DefaultDays))
        matched == {d \in Matching(records, [serviceType |-> q.serviceType,
                                              branch |-> q.branch]) : analysed(d)}
        group(s) == {d \in matched : d.analysis.sentiment = s}
        ids == {d.analysis.sentiment : d \in matched}
        sentimentStats == SortAsc(ids, [s \in ids |-> Rank(s.a[1])])
        totalFeedback == Cardinality(matched)
        scores == [d \in matched |-> OrDefault(d.analysis.sentimentScore, Num(0)).n]
        ratings == [d \in matched |-> d.rating.n]
        scored == \A s \in ids : \E d \in group(s) : d.analysis.sentimentScore.t = "number"
        stat(s) ==
            LET g == group(s)
                withScore == {d \in g : d.analysis.sentimentScore.t = "number"}
            IN  [sentiment |-> s.a[1], count |-> Cardinality(g),
                 percentage |-> Percentage(Cardinality(g), totalFeedback),
                 avgRating |-> ToFixed(SumOver(g, ratings), Cardinality(g), 100),
                 avgSentimentScore |->
                     ToFixed(SumOver(withScore, scores), Cardinality(withScore), 10)]
        summary ==
            IF totalFeedback = 0 THEN [totalFeedback |-> 0]
            ELSE [totalFeedback |-> totalFeedback,
                  overallAvgRating |-> ToFixed(SumOver(matched, ratings), totalFeedback, 100),
                  overallSentimentScore |->
                      ToFixed(SumOver(matched, scores), totalFeedback, 10)]
    IN  /\ IF scored
           THEN /\ report' = [i \in 1..Len(sentimentStats) |-> stat(sentimentStats[i])]
                /\ response' = Answer("overview", q, summary)
           ELSE /\ report' = <<>>
                /\ response' = Response("overview", 500)
        /\ UNCHANGED <<validateVars, analyzeVars, handlerVars, store, nextId, countVars,
                       inflight, batchVars, now>>

PulseQuery(days) == [days |-> days]

\* csat, nps and ces are in tenths, avgRating in hundredths
getPulseMetrics(records, q) ==
    LET days == IF q.days.t = "undefined" THEN DefaultDays ELSE q.days.n
        inWindow(d) == d.createdAt >= Since(days) /\ d.rating.t # "undefined"
        feedback == {d \in Matching(records, <<>>) : inWindow(d)}
        length == Cardinality(feedback)
        satisfiedCount == Cardinality({f \in feedback : RatingGE(f.rating, 4)})
        csat == ToFixed(satisfiedCount * 100, length, 10)
        promoters == Cardinality({f \in feedback : RatingIs(f.rating, 5)})
        detractors == Cardinality({f \in feedback : Detractor(f)})
        nps == ToFixed((promoters - detractors) * 100, length, 10)
        avgSentimentScore ==
            ToFixed(SumOver(feedback, [f \in feedback |->
                                         OrDefault(f.analysis.sentimentScore, Num(0)).n]),
                    length, 10)
        avgRating == ToFixed(SumOver(feedback, [f \in feedback |-> f.rating.n]), length, 100)
        performance ==
            IF csat >= 900 /\ nps >= 500 THEN "Excellent"
            ELSE IF csat >= 800 /\ nps >= 300 THEN "Good"
            ELSE IF csat >= 700 /\ nps >= 100 THEN "Average"
            ELSE "Needs Improvement"
        data == IF length = 0
                THEN [csat |-> 0, nps |-> 0, ces |-> 0, totalFeedback |-> 0]
                ELSE [csat |-> csat, nps |-> nps, ces |-> avgSentimentScore,
                      avgRating |-> avgRating, totalFeedback |-> length,
                      promoters |-> promoters, detractors |-> detractors,
                      passives |-> length - promoters - detractors,
                      satisfied |-> satisfiedCount,
                      unsatisfied |-> length - satisfiedCount,
                      performanceRating |-> performance]
    IN  /\ report' = <<>>
        /\ response' = Answer("pulse", q, data)
        /\ UNCHANGED <<validateVars, analyzeVars, handlerVars, store, nextId, countVars,
                       inflight, batchVars, now>>

\* percentages and satisfactionScore are in tenths
getServiceTypeMetrics(records, q) ==
    LET analysed(d) == Exists(d.analysis.sentiment) /\ InRange(d, q, Undef)
        matched == {d \in Matching(records, <<>>) : analysed(d)}
        row(s) ==
            LET g == {d \in matched : d.serviceType = s}
                t == Totals(g, Once(g))
            IN  [serviceType |-> s.a[1], totalFeedback |-> t.count,
                 avgRating |-> Avg(t.ratingSum, t.count, 100),
                 avgSentimentScore |-> Avg(t.scoreSum, t.scored, 10),
                 positivePercentage |-> RoundHalfEven(t.positiveCount * 100, t.count, 10),
                 negativePercentage |-> RoundHalfEven(t.negativeCount * 100, t.count, 10),
                 neutralPercentage |-> RoundHalfEven(t.neutralCount * 100, t.count, 10),
                 satisfactionScore |-> RoundHalfEven(t.positiveCount * 100, t.count, 10),
                 highUrgencyCount |-> t.highUrgencyCount,
                 performanceRating |-> performanceRating(t)]
        rows == {row(d.serviceType) : d \in matched}
    IN  /\ report' \in SortedDesc(rows, [r \in rows |-> r.satisfactionScore])
        /\ response' = Answer("service", q, <<>>)
        /\ UNCHANGED <<validateVars, analyzeVars, handlerVars, store, nextId, countVars,
                       inflight, batchVars, now>>

TrendsQuery(period, days) == [period |-> period, days |-> days]

\* $dateToString of createdAt, the current hour being the first of a day: the
\* day for 'daily' and any period but 'hourly', 'weekly' and 'monthly', which
\* TrendsQueries leaves out
Period(q, d) ==
    IF q.period = Word("hourly") THEN d.createdAt ELSE d.createdAt \div HoursPerDay

getSentimentTrends(records, q) ==
    LET days == IF q.days.t = "undefined" THEN DefaultDays ELSE q.days.n
        recent(d) == d.createdAt >= Since(days) /\ Exists(d.analysis.sentiment)
        matched == {d \in Matching(records, <<>>) : recent(d)}
        row(p, s) ==
            LET g == {d \in matched : Period(q, d) = p /\ d.analysis.sentiment = s}
                t == Totals(g, Once(g))
            IN  [period |-> p, sentiment |-> s.a[1], count |-> t.count,
                 avgRating |-> Avg(t.ratingSum, t.count, 100),
                 avgSentimentScore |-> Avg(t.scoreSum, t.scored, 10)]
        rows == {row(Period(q, d), d.analysis.sentiment) : d \in matched}
        bySentiment == SortAsc(rows, [r \in rows |-> Rank(r.sentiment)])
    IN  /\ report' = StableSort(bySentiment, [r \in rows |-> r.period])
        /\ response' = Answer("trends", q, [days |-> days])
        /\ UNCHANGED <<validateVars, analyzeVars, handlerVars, store, nextId, countVars,
                       inflight, batchVars, now>>

\* minCount of the query, when none is given
DefaultMinCount == 1

\* the values of an array field over the documents of S
Elements(S, field) ==
    UNION {{d.analysis[field].a[i] : i \in DOMAIN d.analysis[field].a} : d \in S}

\* parseInt of a number or of a string of decimal digits; NaN for other values
parseInt(v) ==
    IF v.t = "number" THEN v
    ELSE IF v.t = "string" /\ v.a # <<>> /\ \A i \in 1..Len(v.a) : IsDigit(v.a[i])
    THEN Num(DecimalValue(v.a)) ELSE NaN

CategoryQuery(startDate, endDate, minCount) ==
    [startDate |-> startDate, endDate |-> endDate, minCount |-> minCount]

\* getCategoryInsights, for a minCount that parseInt makes a number
getCategoryInsights(records, q) ==
    LET minCount == IF q.minCount.t = "undefined" THEN Num(DefaultMinCount) ELSE q.minCount
        categorised(d) == d.analysis.categories # Arr(<<>>) /\ InRange(d, q, Undef)
        matched == {d \in Matching(records, <<>>) : categorised(d)}
        row(c) ==
            LET g == {d \in matched : Unwound(d, "categories", c) > 0}
                t == Totals(g, [d \in g |-> Unwound(d, "categories", c)])
            IN  [category |-> c, count |-> t.count,
                 avgRating |-> Avg(t.ratingSum, t.count, 100),
                 avgSentimentScore |-> Avg(t.scoreSum, t.scored, 10),
                 positiveCount |-> t.positiveCount, negativeCount |-> t.negativeCount,
                 neutralCount |-> t.neutralCount, highUrgencyCount |-> t.highUrgencyCount,
                 positivePercentage |-> RoundHalfEven(t.positiveCount * 100, t.count, 10),
                 negativePercentage |-> RoundHalfEven(t.negativeCount * 100, t.count, 10),
                 dominantSentiment |->
                     IF t.positiveCount >= t.negativeCount THEN "positive" ELSE "negative"]
        rows == {r \in {row(c) : c \in Elements(matched, "categories")} :
                   r.count >= parseInt(minCount).n}
    IN  /\ report' \in SortedDesc(rows, [r \in rows |-> r.count])
        /\ response' = Answer("categories", q, <<>>)
        /\ UNCHANGED <<validateVars, analyzeVars, handlerVars, store, nextId, countVars,
                       inflight, batchVars, now>>

getEmotionAnalysis(records, q) ==
    LET moved(d) == d.analysis.emotions # Arr(<<>>) /\ InRange(d, q, Undef)
        matched == {d \in Matching(records, [serviceType |-> q.serviceType]) : moved(d)}
        row(e) ==
            LET g == {d \in matched : Unwound(d, "emotions", e) > 0}
                t == Totals(g, [d \in g |-> Unwound(d, "emotions", e)])
            IN  [emotion |-> e, count |-> t.count,
                 avgRating |-> Avg(t.ratingSum, t.count, 100),
                 avgSentimentScore |-> Avg(t.scoreSum, t.scored, 10),
                 positiveCount |-> t.positiveCount, negativeCount |-> t.negativeCount]
        emotionData == {row(e) : e \in Elements(matched, "emotions")}
        totalEmotions == SumOver(emotionData, [r \in emotionData |-> r.count])
        withShare(r) ==
            [emotion |-> r.emotion, count |-> r.count, avgRating |-> r.avgRating,
             avgSentimentScore |-> r.avgSentimentScore,
             positiveCount |-> r.positiveCount, negativeCount |-> r.negativeCount,
             percentage |-> Percentage(r.count, totalEmotions)]
    IN  /\ \E sorted \in SortedDesc(emotionData, [r \in emotionData |-> r.count]) :
              report' = [i \in 1..Len(sorted) |-> withShare(sorted[i])]
        /\ response' = Answer("emotions", q, [totalEmotions |-> totalEmotions,
                                              uniqueEmotions |-> Cardinality(emotionData)])
        /\ UNCHANGED <<validateVars, analyzeVars, handlerVars, store, nextId, countVars,
                       inflight, batchVars, now>>

\* the score on the averages rounded to whole numbers
performanceScoreOfRounded(t) ==
    IF t.scored = 0 THEN Null
    ELSE Num(RoundHalfEven(7 * RoundHalfEven(t.scoreSum, t.scored, 1) * 10
                             + 600 * RoundHalfEven(t.ratingSum, t.count, 1), 100, 10))

\* $round of 0.7 x avgSentimentScore + 6 x avgRating, in tenths, on the
\* averages as $group leaves them
performanceScore(t) ==
    IF t.scored = 0 THEN Null
    ELSE Num(RoundHalfEven(7 * t.scoreSum * t.count + 60 * t.ratingSum * t.scored,
                           10 * t.scored * t.count, 10))

getBranchComparison(records, q) ==
    LET atBranch(d) == /\ d.branch.t # "undefined" /\ d.branch # Str(<<>>)
                       /\ d.analysis.sentiment.t # "undefined"
                       /\ InRange(d, q, Num(DefaultDays))
        matched == {d \in Matching(records, <<>>) : atBranch(d)}
        row(b) ==
            LET g == {d \in matched : d.branch = b}
                t == Totals(g, Once(g))
            IN  [branch |-> b.a[1], totalFeedback |-> t.count,
                 avgRating |-> Avg(t.ratingSum, t.count, 100),
                 avgSentimentScore |-> Avg(t.scoreSum, t.scored, 10),
                 positivePercentage |-> RoundHalfEven(t.positiveCount * 100, t.count, 10),
                 negativePercentage |-> RoundHalfEven(t.negativeCount * 100, t.count, 10),
                 neutralPercentage |-> RoundHalfEven(t.neutralCount * 100, t.count, 10),
                 highUrgencyCount |-> t.highUrgencyCount,
                 performanceScore |-> performanceScore(t),
                 performanceRating |-> performanceRating(t)]
        rows == {row(d.branch) : d \in matched}
    IN  /\ \E branchData \in SortedDesc(rows, [r \in rows |-> SortKey(r.performanceScore)]) :
            /\ report' = branchData
            /\ response' =
                 Answer("branches", q,
                        [totalBranches |-> Len(branchData),
                         topPerformer |->
                             IF branchData = <<>> THEN <<>> ELSE <<branchData[1]>>,
                         lowestPerformer |->
                             IF branchData = <<>> THEN <<>>
                             ELSE <<branchData[Len(branchData)]>>])
        /\ UNCHANGED <<validateVars, analyzeVars, handlerVars, store, nextId, countVars,
                       inflight, batchVars, now>>

\* the dashboard, dropping the closed records from the store as it reads
getUrgencyDashboardPurging(records) ==
    /\ report' = UrgencyRows(records)
    /\ response' = Response("urgency", 200)
    /\ store' = Open(records)
    /\ UNCHANGED <<validateVars, analyzeVars, handlerVars, nextId, countVars,
                   inflight, batchVars, now>>

getUrgencyDashboard(records) ==
    /\ report' = UrgencyRows(records)
    /\ response' = Response("urgency", 200)
    /\ UNCHANGED <<validateVars, analyzeVars, handlerVars, store, nextId, countVars,
                   inflight, batchVars, now>>

(***************************************************************************)
(* batchAnalyzeFeedbacks(feedbacks): the loop, one step per await.         *)
(***************************************************************************)
MaxBatch == 3
MaxTime == 3000
DelayMs == 1000

Item(id, c, rating) == [id |-> id, comment |-> c, rating |-> rating]

\* the feedback objects a batch may hold; the second has no comment
BatchItemOptions == {Item(11, 1, Num(2)), Item(12, 9, Num(1)), Item(13, 3, Num(5))}

BatchInputs == UNION {[1..n -> BatchItemOptions] : n \in 0..MaxBatch}

BatchReplies == {Reply("timeout", JsonNull), Reply("json", JsonObject(GoodResponse))}

Entry(id, success, analysis, error) ==
    [feedbackId |-> id, success |-> success, analysis |-> analysis, error |-> error]

NoTimer == 0 - 1

BatchIdle ==
    /\ bPc = "idle" /\ bItems = <<>> /\ bI = 0 /\ results = <<>>
    /\ successCount = 0 /\ failCount = 0 /\ bTimer = NoTimer /\ issuedAt = <<>>

\* the call, up to the loop
BatchCall(feedbacks) ==
    /\ bPc = "idle"
    /\ bPc' = "loop"
    /\ bItems' = feedbacks
    /\ bI' = 0 /\ results' = <<>> /\ successCount' = 0 /\ failCount' = 0
    /\ issuedAt' = <<>>
    /\ UNCHANGED <<validateVars, analyzeVars, handlerVars, storeVars, countVars,
                   inflight, bTimer, now>>

\* an iteration without its catch block: an item that throws ends the call
AfterAnalysisAbort(r) ==
    IF r.threw
    THEN /\ bPc' = "returned"
         /\ UNCHANGED <<results, successCount, failCount, bI, bTimer>>
    ELSE /\ results' = Append(results, Entry(bItems[bI + 1].id, TRUE, r.value, ""))
         /\ successCount' = successCount + 1
         /\ UNCHANGED failCount
         /\ IF bI < Len(bItems) - 1
            THEN /\ bTimer' = now + DelayMs
                 /\ bPc' = "delay"
                 /\ UNCHANGED bI
            ELSE /\ bI' = bI + 1
                 /\ bPc' = "loop"
                 /\ UNCHANGED bTimer

\* the rest of an iteration once analyzeFeedbackSentiment has returned r or
\* thrown: the entry is pushed; after a success that is not the last item the
\* one-second timer is set, after a failure (the catch block) the loop goes on.
AfterAnalysis(r) ==
    IF r.threw
    THEN /\ results' = Append(results, Entry(bItems[bI + 1].id, FALSE, NoFields,
                                             "TypeError"))
         /\ failCount' = failCount + 1
         /\ bI' = bI + 1
         /\ bPc' = "loop"
         /\ UNCHANGED <<successCount, bTimer>>
    ELSE /\ results' = Append(results, Entry(bItems[bI + 1].id, TRUE, r.value, ""))
         /\ successCount' = successCount + 1
         /\ UNCHANGED failCount
         /\ IF bI < Len(bItems) - 1
            THEN /\ bTimer' = now + DelayMs
                 /\ bPc' = "delay"
                 /\ UNCHANGED bI
            ELSE /\ bI' = bI + 1
                 /\ bPc' = "loop"
                 /\ UNCHANGED bTimer

\* a loop that does not await analyzeFeedbackSentiment: it issues the request
\* of an item and goes on to the next
BatchIterNoAwait ==
    /\ bPc = "loop"
    /\ IF bI >= Len(bItems)
       THEN /\ bPc' = "returned"
            /\ UNCHANGED <<bI, results, successCount, failCount, bTimer, issuedAt,
                           inflight>>
       ELSE IF IssuesRequest(CommentTable[bItems[bI + 1].comment])
       THEN /\ bI' = bI + 1
            /\ inflight' = inflight \cup {Request("batch", 0, bI)}
            /\ issuedAt' = Append(issuedAt, now)
            /\ UNCHANGED <<bPc, results, successCount, failCount, bTimer>>
       ELSE /\ AfterAnalysis(analyzeFeedbackSentiment(bItems[bI + 1].comment,
                                                      bItems[bI + 1].rating, NoReply))
            /\ UNCHANGED <<issuedAt, inflight>>
    /\ UNCHANGED <<validateVars, analyzeVars, handlerVars, storeVars, countVars,
                   bItems, now>>

\* the loop test and the iteration up to its await: the loop ends, or
\* analyzeFeedbackSentiment issues its request, or it throws before it
BatchIter ==
    /\ bPc = "loop"
    /\ IF bI >= Len(bItems)
       THEN /\ bPc' = "returned"
            /\ UNCHANGED <<bI, results, successCount, failCount, bTimer, issuedAt,
                           inflight>>
       ELSE IF IssuesRequest(CommentTable[bItems[bI + 1].comment])
       THEN /\ bPc' = "awaitAI"
            /\ inflight' = inflight \cup {Request("batch", 0, bI)}
            /\ issuedAt' = Append(issuedAt, now)
            /\ UNCHANGED <<bI, results, successCount, failCount, bTimer>>
       ELSE /\ AfterAnalysis(analyzeFeedbackSentiment(bItems[bI + 1].comment,
                                                      bItems[bI + 1].rating, NoReply))
            /\ UNCHANGED <<issuedAt, inflight>>
    /\ UNCHANGED <<validateVars, analyzeVars, handlerVars, storeVars, countVars,
                   bItems, now>>

\* the request of the current item settles
BatchSettle(reply) ==
    /\ bPc = "awaitAI"
    /\ Request("batch", 0, bI) \in inflight
    /\ inflight' = inflight \ {Request("batch", 0, bI)}
    /\ AfterAnalysis(analyzeFeedbackSentiment(bItems[bI + 1].comment,
                                              bItems[bI + 1].rating, reply))
    /\ UNCHANGED <<validateVars, analyzeVars, handlerVars, storeVars, countVars,
                   bItems, issuedAt, now>>

\* a timer that fires at once
BatchTimerEarly ==
    /\ bPc = "delay"
    /\ bTimer' = NoTimer
    /\ bI' = bI + 1
    /\ bPc' = "loop"
    /\ UNCHANGED <<validateVars, analyzeVars, handlerVars, storeVars, countVars,
                   inflight, bItems, results, successCount, failCount, issuedAt, now>>

\* setTimeout(resolve, 1000) fires, not before its time
BatchTimer ==
    /\ bPc = "delay"
    /\ now >= bTimer
    /\ bTimer' = NoTimer
    /\ bI' = bI + 1
    /\ bPc' = "loop"
    /\ UNCHANGED <<validateVars, analyzeVars, handlerVars, storeVars, countVars,
                   inflight, bItems, results, successCount, failCount, issuedAt, now>>

\* time passes
Tick(ms) ==
    /\ now + ms <= MaxTime
    /\ now' = now + ms
    /\ UNCHANGED <<validateVars, analyzeVars, handlerVars, storeVars, countVars,
                   inflight, batchVars>>

TickSteps == {500, 1000}

(***************************************************************************)
(* The specifications                                                      *)
(***************************************************************************)
Init == ValidateIdle /\ AnalyzeIdle /\ ServerIdle /\ BatchIdle /\ now = 0

\* the service: createFeedback requests, step by step, among the operations on
\* the stored records; the answer of an operation replaces the one before it
SmallBodies ==
    {BaseBody, [BaseBody EXCEPT !.rating = Num(6)], [BaseBody EXCEPT !.comment = 9]}

SmallReplies == {Reply("reject", JsonNull), Reply("json", JsonObject(GoodResponse))}

Next ==
    \/ \E body \in SmallBodies : CreateBegin(1, body)
    \/ \E reply \in SmallReplies : CreateSettle(1, reply)
    \/ CreateSave(1)
    \/ CreateFinish(1)
    \/ \E id \in Ids :
        \/ \E u \in UpdateBodies : updateFeedback(id, u)
        \/ deleteFeedback(id)
        \/ getFeedback(id)
    \/ getAllFeedback
    \/ getUrgencyDashboard(store)

Spec == Init /\ [][Next]_vars

\* createFeedback requests one after the other, on every body and reply
NextCreate ==
    \/ \E body \in CreateBodies : CreateBegin(1, body)
    \/ \E reply \in ServerReplies : CreateSettle(1, reply)
    \/ CreateSave(1)
    \/ CreateFinish(1)

SpecCreate == Init /\ [][NextCreate]_vars

\* concurrent createFeedback requests beside a batch
ConcInputs == {[i \in 1..n |-> Item(11, 1, Num(2))] : n \in 1..MaxBatch}

ConcReplies == {Reply("timeout", JsonNull)}

NextConc ==
    \/ \E h \in Handlers :
        \/ CreateBegin(h, BaseBody)
        \/ \E reply \in ConcReplies : CreateSettle(h, reply)
        \/ CreateSave(h)
        \/ CreateFinish(h)
    \/ \E feedbacks \in ConcInputs : BatchCall(feedbacks)
    \/ BatchIter
    \/ \E reply \in ConcReplies : BatchSettle(reply)
    \/ BatchTimer
    \/ \E ms \in TickSteps : Tick(ms)

SpecConc == Init /\ [][NextConc]_vars

\* one batch and the clock
NextBatch ==
    \/ \E feedbacks \in BatchInputs : BatchCall(feedbacks)
    \/ BatchIter
    \/ \E reply \in BatchReplies : BatchSettle(reply)
    \/ BatchTimer
    \/ \E ms \in TickSteps : Tick(ms)

SpecBatch == Init /\ [][NextBatch]_vars

\* validateAnalysisResult on every input of ValidateInputs
InitValidate ==
    /\ vPc = "input" /\ vInput \in ValidateInputs /\ vResult = Returned(JsonNull)
    /\ AnalyzeIdle /\ ServerIdle /\ BatchIdle /\ now = 0

SpecValidate == InitValidate /\ [][ValidateCall]_vars

\* one call of analyzeFeedbackSentiment, on every comment, rating and reply
InitAnalyze ==
    /\ ValidateIdle /\ ServerIdle /\ BatchIdle /\ now = 0
    /\ aPc = "called" /\ aComment \in CommentIds /\ aRating \in Ratings
    /\ aReply = NoReply /\ aResult = Returned(NoFields)

NextAnalyze == AnalyzeCall \/ \E reply \in Replies : AnalyzeSettle(reply)

SpecAnalyze == InitAnalyze /\ [][NextAnalyze]_vars

\* the reports, on the records of earlier runs
Stored(id, rating, serviceType, branch, status, a, age) ==
    [NewFeedback(id, Body(1, Num(rating), Word(serviceType), branch)) EXCEPT
        !.status = status, !.analysis = a, !.analysed = TRUE, !.createdAt = 0 - age]

Insight == Str(<<"Review the complaint">>)

\* eight records: five of the last three days, one of forty days ago, one
\* closed, and one stored thirty-five days ago, before the analysis existed
Archive ==
    { Stored(1, 5, "Mobile App", Undef, "pending",
             Analysis(Word("positive"), Num(90), Arr(<<"service_quality">>),
                      Arr(<<"happy">>), Word("low"), Insight, Num(90)), 2),
      Stored(2, 5, "Branch Visit", Word("Ikeja"), "in_progress",
             Analysis(Word("positive"), Num(80), Arr(<<"service_quality", "wait_time">>),
                      Arr(<<"satisfied", "happy">>), Word("medium"), Insight, Num(85)), 26),
      Stored(3, 4, "Branch Visit", Word("Lekki"), "pending",
             Analysis(Word("positive"), Num(80), Arr(<<"service_quality">>),
                      Arr(<<"satisfied">>), Word("high"), Insight, Num(80)), 2 * HoursPerDay),
      Stored(4, 3, "ATM", Word("Lekki"), "resolved",
             Analysis(Word("neutral"), Num(60), Arr(<<"wait_time">>),
                      Arr(<<"frustrated">>), Word("high"), Insight, Num(70)), 60),
      Stored(5, 1, "Mobile App", Word("Lekki"), "pending",
             Analysis(Word("negative"), Num(20), Arr(<<"technical_issues">>),
                      Arr(<<"frustrated">>), Word("high"), Insight, Num(95)),
             3 * HoursPerDay),
      Stored(6, 2, "Branch Visit", Word("Abuja"), "pending",
             Analysis(Word("negative"), Num(40), Arr(<<"wait_time", "wait_time">>),
                      Arr(<<"frustrated">>), Word("critical"), Insight, Num(60)),
             40 * HoursPerDay),
      Stored(7, 1, "Mobile App", Word("Ikeja"), "closed",
             Analysis(Word("negative"), Num(10), Arr(<<"technical_issues">>),
                      Arr(<<"frustrated">>), Word("critical"), Insight, Num(90)), 5),
      [NewFeedback(8, Body(1, Num(4), Word("ATM"), Undef)) EXCEPT
          !.createdAt = 0 - 35 * HoursPerDay] }

LedgerSize == 21

\* the records of one busy branch: twenty of sentimentScore 80 and one of 79,
\* stored an hour apart
Ledger ==
    { Stored(i, 4, "Branch Visit", Word("Lekki"), "pending",
             Analysis(Word("positive"), Num(IF i = 1 THEN 79 ELSE 80),
                      Arr(<<"service_quality">>), Arr(<<"satisfied">>), Word("low"),
                      Insight, Num(80)), i) : i \in 1..LedgerSize }

\* the records of the last 30 days
Recent(records) == {d \in records : d.createdAt >= Since(DefaultDays)}

InitReports ==
    /\ ValidateIdle /\ AnalyzeIdle /\ BatchIdle /\ now = 0
    /\ hPc = [h \in Handlers |-> "idle"]
    /\ hDoc = [h \in Handlers |-> NoDoc]
    /\ hRes = [h \in Handlers |-> NoRes]
    /\ store \in {Archive} \cup {Archive \ {d} : d \in Recent(Open(Archive))}
    /\ nextId = Cardinality(Archive) + 1
    /\ response = Response("none", 0)
    /\ report = <<>>
    /\ classifyCount = [id \in Ids |-> 0]
    /\ attachCount = [id \in Ids |-> 0]
    /\ inflight = {}

InsightsQueries ==
    {InsightsQuery(Undef, Undef, Undef), InsightsQuery(Num(1), Undef, Undef),
     InsightsQuery(Num(2), Word("high"), Word("Mobile App"))}

NoRange == RangeQuery(Undef, Undef, Undef, Undef)

TrendsQueries == {TrendsQuery(Undef, Undef), TrendsQuery(Word("hourly"), Num(2))}

\* fifty days ago, and one day ago
BranchQueries == {NoRange, RangeQuery(Num(Since(50)), Undef, Undef, Undef)}

RangeQueries ==
    {NoRange,
     RangeQuery(Num(Since(50)), Num(Since(1)), Undef, Undef),
     RangeQuery(Undef, Undef, Word("Mobile App"), Undef)}

PulseQueries == {PulseQuery(Undef), PulseQuery(Num(2))}

CategoryQueries == {CategoryQuery(Undef, Undef, Undef), CategoryQuery(Undef, Undef, Str(<<"2">>))}

\* the reports by service type and by branch, on the records of the busy
\* branch, with at most one of the first of them missing
InitLedger ==
    /\ ValidateIdle /\ AnalyzeIdle /\ BatchIdle /\ now = 0
    /\ hPc = [h \in Handlers |-> "idle"]
    /\ hDoc = [h \in Handlers |-> NoDoc]
    /\ hRes = [h \in Handlers |-> NoRes]
    /\ store \in {Ledger} \cup {Ledger \ {d} : d \in {e \in Ledger : e.id \in Ids}}
    /\ nextId = LedgerSize + 1
    /\ response = Response("none", 0)
    /\ report = <<>>
    /\ classifyCount = [id \in Ids |-> 0]
    /\ attachCount = [id \in Ids |-> 0]
    /\ inflight = {}

NextLedger ==
    \/ \E id \in Ids : updateFeedback(id, Update("status", Word("closed")))
    \/ \E id \in Ids : deleteFeedback(id)
    \/ \E d \in Archive : getFeedback(d.id)
    \/ getServiceTypeMetrics(store, NoRange)
    \/ \E q \in BranchQueries : getBranchComparison(store, q)

SpecLedger == InitLedger /\ [][NextLedger]_vars

NextReports ==
    \/ \E id \in Ids :
        \/ updateFeedback(id, Update("status", Word("closed")))
        \/ deleteFeedback(id)
    \/ \E d \in Archive : getFeedback(d.id)
    \/ getUrgencyDashboard(store)
    \/ \E q \in InsightsQueries : getActionableInsights(store, q)
    \/ \E q \in PulseQueries : getPulseMetrics(store, q)
    \/ \E q \in RangeQueries : getSentimentOverview(store, q)
    \/ getServiceTypeMetrics(store, NoRange)
    \/ \E q \in TrendsQueries : getSentimentTrends(store, q)
    \/ \E q \in CategoryQueries : getCategoryInsights(store, q)
    \/ getEmotionAnalysis(store, NoRange)
    \/ \E q \in BranchQueries : getBranchComparison(store, q)

SpecReports == InitReports /\ [][NextReports]_vars

\* the same call, with the fairness the event loop gives the code's own
\* steps; nothing obliges the AI service to answer
SpecAnalyzeFair == SpecAnalyze /\ WF_vars(AnalyzeCall)

(***************************************************************************)
(* Properties of analyzeFeedbackSentiment and validateAnalysisResult       *)
(***************************************************************************)
AnalyzeDone == aPc \in {"returned", "threw"}

\* what getFallbackAnalysis returns on the inputs of the call
FallbackOfCall == getFallbackAnalysis(CommentTable[aComment], aRating)

\* the request failed: a transport error, a timeout, no completion, no JSON
RequestFailed == aReply.kind \in {"reject", "timeout", "nochoices", "nonjson"}

ScoreIsNumber(x) == x.t = "number"

ScoreInRange(x) == x.t = "number" /\ x.n >= 0 /\ x.n <= 100

ShortStringArray(x) == x.t = "array" /\ Len(x.a) <= 3

\* the response is JSON that deviates from the expected shape in some field
Deviates(json) ==
    \/ json.kind # "object"
    \/ ~IsWordOf(json.f.sentiment, validSentiments)
    \/ ~IsWordOf(json.f.urgency, validUrgencies)
    \/ ~ShortStringArray(json.f.categories)
    \/ ~ShortStringArray(json.f.emotions)
    \/ ~ScoreIsNumber(json.f.sentimentScore)
    \/ ~ScoreIsNumber(json.f.confidenceScore)
    \/ json.f.actionableInsights.t # "string"

\* the response is JSON the try block cannot work on: it is no object, its
\* emotions are no array, or its actionableInsights is truthy and no string
Unusable(json) ==
    \/ json.kind # "object"
    \/ json.f.emotions.t # "array"
    \/ (~Falsy(json.f.actionableInsights) /\ json.f.actionableInsights.t # "string")

\* C1 as stated: analyzeFeedbackSentiment never throws, and on a transport
\* error, a timeout, non-JSON text or JSON of the wrong shape it returns
\* exactly the result of getFallbackAnalysis(comment, rating).
C1_NeverThrowsFallbackOnAnyFailure ==
    /\ aPc # "threw"
    /\ (aPc = "returned" /\ (RequestFailed \/ (aReply.kind = "json" /\ Deviates(aReply.json))))
          => aResult = FallbackOfCall

\* C1 amended: for a string comment analyzeFeedbackSentiment never throws; on
\* a transport error, a timeout, a completion without choices, non-JSON text,
\* or JSON that is no object with an emotions array, it returns exactly the
\* result of getFallbackAnalysis(comment, rating).
C1_NeverThrowsFallbackOnFailure ==
    /\ CommentTable[aComment].t = "string" => aPc # "threw"
    /\ (aPc = "returned"
        /\ (RequestFailed
            \/ (aReply.kind = "json"
                /\ (aReply.json.kind # "object" \/ aReply.json.f.emotions.t # "array"))))
          => (~aResult.threw /\ aResult = FallbackOfCall)

C1_Witness ==
    /\ aPc = "returned" /\ aReply.kind = "timeout"
    /\ aResult.value.confidenceScore = Num(FallbackConfidence)
    /\ aResult.value.categories = Arr(<<"technical_issues", "staff_behavior", "wait_time">>)

\* C7 as stated: for every input object the output of validateAnalysisResult
\* has sentiment in the sentiment set, urgency in the urgency set, and
\* sentimentScore and confidenceScore numbers in [0,100]; a sentiment outside
\* the set becomes 'neutral' and an urgency outside the set 'low'.
C7_ValidatedFieldsInRange ==
    (vPc = "done" /\ vInput.kind = "object" /\ ~vResult.threw) =>
        LET in == vInput.f
            out == vResult.value.f
        IN  /\ IsWordOf(out.sentiment, validSentiments)
            /\ IsWordOf(out.urgency, validUrgencies)
            /\ ScoreInRange(out.sentimentScore)
            /\ ScoreInRange(out.confidenceScore)
            /\ ~IsWordOf(in.sentiment, validSentiments) => out.sentiment = Word("neutral")
            /\ ~IsWordOf(in.urgency, validUrgencies) => out.urgency = Word("low")

NonEmptySubset(x, S) ==
    /\ x.t = "array"
    /\ Len(x.a) >= 1 /\ Len(x.a) <= 3
    /\ \A i \in 1..Len(x.a) : x.a[i] \in S

\* C8 as stated: in every result analyzeFeedbackSentiment returns, categories
\* is a non-empty subset (at most 3 values) of the category taxonomy and
\* emotions a non-empty subset (at most 3 values) of the emotion taxonomy.
C8_CategoriesEmotionsNonEmptySubsets ==
    aPc = "returned" =>
        /\ NonEmptySubset(aResult.value.categories, CategoryTaxonomy)
        /\ NonEmptySubset(aResult.value.emotions, EmotionTaxonomy)

\* C9 as stated: when the AI returns JSON that deviates from the expected
\* shape in any field, analyzeFeedbackSentiment returns the fallback result.
C9_DeviationFallsBack ==
    (aPc = "returned" /\ aReply.kind = "json" /\ Deviates(aReply.json))
        => aResult = FallbackOfCall

\* C9 amended: when the AI returns JSON that is no object, or whose emotions
\* are no array, or whose actionableInsights is a non-empty non-string,
\* analyzeFeedbackSentiment returns the fallback result; any other JSON is
\* returned repaired: emotions as given, sentiment, urgency and categories as
\* given when valid (else 'neutral', 'low' and []), and a score that is a
\* non-zero number clamped to [0,100].
C9_UnusableFallsBackOthersRepaired ==
    (aPc = "returned" /\ aReply.kind = "json") =>
        LET in == aReply.json.f
            out == aResult.value
        IN  IF Unusable(aReply.json)
            THEN aResult = FallbackOfCall
            ELSE /\ out.emotions = in.emotions
                 /\ out.sentiment = IF IsWordOf(in.sentiment, validSentiments)
                                    THEN in.sentiment ELSE Word("neutral")
                 /\ out.urgency = IF IsWordOf(in.urgency, validUrgencies)
                                  THEN in.urgency ELSE Word("low")
                 /\ out.categories = IF in.categories.t = "array"
                                     THEN in.categories ELSE Arr(<<>>)
                 /\ (in.sentimentScore.t = "number" /\ in.sentimentScore.n # 0) =>
                        /\ out.sentimentScore.t = "number"
                        /\ out.sentimentScore.n >= 0 /\ out.sentimentScore.n <= 100
                        /\ ScoreInRange(in.sentimentScore)
                              => out.sentimentScore = in.sentimentScore

C9_Witness ==
    /\ aPc = "returned" /\ aReply.kind = "json" /\ ~Unusable(aReply.json)
    /\ aReply.json.f.sentiment = Word("mixed")
    /\ aResult.value.sentiment = Word("neutral")
    /\ aResult.value.confidenceScore = Num(90)

\* C10 as stated: every call of analyzeFeedbackSentiment eventually returns,
\* also when the AI service never answers.
C10_CallEventuallyReturns == (aPc = "called") ~> AnalyzeDone

(***************************************************************************)
(* Properties of createFeedback, of the stored records and of the batch    *)
(***************************************************************************)
\* request h ended in a validation failure
ValidationFailure(h) == hPc[h] = "done" /\ hRes[h].error = "ValidationError"

\* C2 as stated: on every execution of createFeedback that ends in a
\* validation failure, the classifier has not been called for the submission
\* and no request to the AI service has been issued for it.
C2_RejectedBeforeClassification ==
    \A h \in Handlers : ValidationFailure(h) => classifyCount[hDoc[h].id] = 0

BatchEntries(success) == {k \in 1..Len(results) : results[k].success = success}

\* C3: batchAnalyzeFeedbacks on N items returns N entries, entry i for item
\* i; an item whose processing throws gives a failed entry with its error and
\* the items after it are still processed, every other item gives a success
\* entry with its analysis, and successCount + failCount = N at the end.
C3_BatchIsolatesFailures ==
    /\ bPc # "idle" =>
          /\ successCount = Cardinality(BatchEntries(TRUE))
          /\ failCount = Cardinality(BatchEntries(FALSE))
          /\ \A k \in 1..Len(results) :
                /\ results[k].feedbackId = bItems[k].id
                /\ results[k].success = (CommentTable[bItems[k].comment].t = "string")
                /\ results[k].success => results[k].analysis # NoFields
                /\ ~results[k].success => results[k].error # ""
    /\ bPc = "returned" =>
          /\ Len(results) = Len(bItems)
          /\ successCount + failCount = Len(bItems)

C3_Witness ==
    /\ bPc = "returned" /\ Len(bItems) = 3 /\ Len(results) = 3
    /\ ~results[2].success /\ results[2].error = "TypeError"
    /\ results[3].success /\ results[1].success
    /\ failCount = 1 /\ successCount = 2

BatchRequests == {q \in inflight : q.kind = "batch"}

\* C4 as stated: at no time are two requests to the AI service in flight,
\* under any interleaving of createFeedback requests and batch calls.
C4_OneRequestInFlight == Cardinality(inflight) <= 1

\* C4 amended: within one batchAnalyzeFeedbacks call at most one request to
\* the AI service is in flight, and the request for item i+1 is issued only
\* after the request for item i has returned; the requests of concurrent
\* createFeedback requests and of the batch may be in flight together.
C4_OneRequestInFlightPerCall ==
    /\ Cardinality(BatchRequests) <= 1
    /\ \A q \in BatchRequests : bPc = "awaitAI" /\ q.item = bI
    /\ Len(issuedAt) = Cardinality(BatchEntries(TRUE)) + Cardinality(BatchRequests)

C4_Witness ==
    /\ Request("batch", 0, 1) \in inflight
    /\ \A h \in Handlers : Request("create", h, 0) \in inflight

\* C5: between two consecutive requests one batchAnalyzeFeedbacks call
\* issues, the delay of one second has elapsed, also when items between them
\* failed; no delay is taken after the last item.
C5_DelayBetweenRequests ==
    /\ \A k \in 1..(Len(issuedAt) - 1) : issuedAt[k + 1] - issuedAt[k] >= DelayMs
    /\ bPc = "delay" => (bI < Len(bItems) - 1 /\ bTimer # NoTimer)
    /\ bPc = "returned" => bTimer = NoTimer

C5_Witness ==
    /\ bPc = "returned" /\ Len(bItems) = 3 /\ Len(issuedAt) = 2
    /\ ~results[2].success
    /\ issuedAt[2] - issuedAt[1] = DelayMs

\* the request, if any, that runs the classifier in this step
ClassifiedIn(id) ==
    \E h \in Handlers : /\ hPc[h] = "idle" /\ hPc'[h] = "awaitAI"
                        /\ hDoc'[h].id = id /\ id \notin {d.id : d \in store}

\* C6: over any sequence of createFeedback, getFeedback, updateFeedback,
\* deleteFeedback and report requests, the classifier runs for a record at
\* most once, during its createFeedback, and its result is written to the
\* record at most once; updateFeedback changes analysis fields only to the
\* values the caller supplies and never runs the classifier.
C6_ClassifiedOnceAtCreation ==
    [][/\ \A id \in Ids :
            /\ classifyCount'[id] <= 1 /\ attachCount'[id] <= 1
            /\ attachCount'[id] <= classifyCount'[id]
            /\ classifyCount'[id] # classifyCount[id] => ClassifiedIn(id)
            /\ attachCount'[id] # attachCount[id] =>
                  \E h \in Handlers : hPc[h] = "awaitAI" /\ hDoc[h].id = id
       /\ \A d \in store : \A e \in store' :
            (d.id = e.id /\ d.analysis # e.analysis) =>
                /\ response'.op = "update"
                /\ \E u \in UpdateBodies :
                      /\ u.field \in {"sentiment", "urgency"}
                      /\ e.analysis = [d.analysis EXCEPT ![u.field] = u.value]
                /\ UNCHANGED <<countVars, inflight>>
      ]_vars

C6_Witness ==
    /\ response = Response("update", 200)
    /\ \E d \in store : /\ d.analysed /\ d.analysis.sentiment = Word("positive")
                        /\ d.analysis.urgency = Word("critical")
                        /\ classifyCount[d.id] = 1 /\ attachCount[d.id] = 1

(***************************************************************************)
(* Properties of getFallbackAnalysis                                       *)
(***************************************************************************)
\* the call ended in the catch block, on the result of getFallbackAnalysis
FellBack == aPc = "returned" /\ RequestFailed

\* C11: whatever the comment text, getFallbackAnalysis returns sentiment
\* positive with sentimentScore rating x 20 for rating 4 and 5, sentiment
\* negative with sentimentScore rating x 20 for rating 1 and 2, and sentiment
\* neutral with sentimentScore 60 for rating 3.
C11_FallbackScoreFromRating ==
    (FellBack /\ aRating.t = "number" /\ aRating.n \in 1..5) =>
        LET r == aRating.n
            out == aResult.value
        IN  /\ r \in {4, 5} => (out.sentiment = Word("positive")
                                /\ out.sentimentScore = Num(r * 20))
            /\ r \in {1, 2} => (out.sentiment = Word("negative")
                                /\ out.sentimentScore = Num(r * 20))
            /\ r = 3 => (out.sentiment = Word("neutral")
                         /\ out.sentimentScore = Num(60))

C11_Witness ==
    /\ FellBack /\ aRating = Num(3) /\ CommentTable[aComment] = Str(txtHappyStaff)
    /\ aResult.value.sentiment = Word("neutral")
    /\ aResult.value.sentimentScore = Num(60)
    /\ aResult.value.emotions # Arr(<<"disappointed">>)

\* the comments of CommentTable that hold "urgent" or "immediately" in any case
SaysUrgent == {Str(txtUrgentAtm), Str(txtImmediately)}

\* C24: getFallbackAnalysis gives urgency high when the rating is 1 or the
\* comment holds "urgent" or "immediately" in any case, medium when the rating
\* is 2 and the comment holds neither, and low otherwise; the urgency is never
\* critical and the confidenceScore is always 60.
C24_FallbackUrgencyAndConfidence ==
    FellBack =>
        LET out == aResult.value
            keyword == CommentTable[aComment] \in SaysUrgent
            expected == IF aRating = Num(1) \/ keyword THEN "high"
                        ELSE IF aRating = Num(2) THEN "medium" ELSE "low"
        IN  /\ out.urgency = Word(expected)
            /\ out.urgency # Word("critical")
            /\ out.confidenceScore = Num(60)

C24_Witness ==
    /\ FellBack /\ aRating = Num(2) /\ CommentTable[aComment] = Str(txtImmediately)
    /\ aResult.value.urgency = Word("high")

\* the targets of the keyword table, in the order of its tests
KeywordTargets == <<"technical_issues", "staff_behavior", "wait_time", "transaction_issues">>

\* the comments of CommentTable that hold no keyword of the table
SaysNoCategory ==
    {Str(txtNothing), Str(txtTooShort), Str(txtPadded), Str(txtLong), Str(txtImmediately)}

\* the position of category c in the keyword table
TargetIndex(c) == CHOOSE i \in DOMAIN KeywordTargets : KeywordTargets[i] = c

\* C25: getFallbackAnalysis returns one to three categories: exactly
\* [service_quality] when the comment holds no keyword of the table, and else
\* targets of the keyword table in the order of the table's tests; the category
\* that actionableInsights names is the first category returned.
C25_FallbackCategories ==
    FellBack =>
        LET out == aResult.value
            cats == out.categories.a
        IN  /\ Len(cats) \in 1..3
            /\ IF CommentTable[aComment] \in SaysNoCategory
               THEN cats = <<"service_quality">>
               ELSE /\ \A i \in DOMAIN cats :
                         \E k \in DOMAIN KeywordTargets : KeywordTargets[k] = cats[i]
                    /\ \A i, j \in DOMAIN cats :
                         i < j => TargetIndex(cats[i]) < TargetIndex(cats[j])
            /\ out.actionableInsights.a[4] = cats[1]

C25_Witness ==
    /\ FellBack /\ CommentTable[aComment] = Str(txtUrgentAtm)
    /\ aResult.value.categories = Arr(<<"technical_issues", "staff_behavior", "wait_time">>)
    /\ aResult.value.actionableInsights.a[4] = "technical_issues"

(***************************************************************************)
(* Properties of the reports                                               *)
(***************************************************************************)
PriorityList == <<"critical", "high", "medium", "low">>

Priority(u) == CHOOSE i \in 1..Len(PriorityList) : PriorityList[i] = u

\* the stored records that are not closed and carry urgency u
OpenWithUrgency(u) == {d \in store : d.status # "closed" /\ d.analysis.urgency = Word(u)}

\* C13: the rows of getUrgencyDashboard are in the order critical, high,
\* medium, low, with at most one row per level; a level has a row exactly
\* when an open record carries it, whatever the order and counts of the
\* stored records.
C13_UrgencyRowsInPriorityOrder ==
    response.op = "urgency" =>
        /\ \A i, j \in 1..Len(report) :
              i < j => Priority(report[i].urgency) < Priority(report[j].urgency)
        /\ \A i \in 1..Len(report) :
              report[i].count = Cardinality(OpenWithUrgency(report[i].urgency))
        /\ \A i \in 1..Len(PriorityList) :
              (OpenWithUrgency(PriorityList[i]) # {})
                 <=> (\E k \in 1..Len(report) : report[k].urgency = PriorityList[i])

C13_Witness ==
    /\ response.op = "urgency" /\ Len(report) = 4
    /\ report[1] = [urgency |-> "critical", count |-> 1]
    /\ report[2] = [urgency |-> "high", count |-> 3]
    /\ report[3] = [urgency |-> "medium", count |-> 1]
    /\ report[4] = [urgency |-> "low", count |-> 2]
    /\ \E d \in store : d.status = "closed" /\ d.analysis.urgency = Word("critical")

\* the records getActionableInsights is to list for the query of its answer
InsightsAsked ==
    LET q == response.query
    IN  {d \in store : /\ d.status # "closed"
                       /\ d.analysis.actionableInsights.t = "string"
                       /\ d.analysis.actionableInsights.a # <<>>
                       /\ q.urgency.t = "string" => d.analysis.urgency = q.urgency
                       /\ q.serviceType.t = "string" => d.serviceType = q.serviceType}

\* d comes no later than e: a higher priority, or the same and not older
NoLater(d, e) ==
    \/ Priority(d.urgency.a[1]) < Priority(e.urgency.a[1])
    \/ d.urgency = e.urgency /\ d.createdAt >= e.createdAt

\* C12: getActionableInsights lists only records with insights that match the
\* filters given, in the order critical, high, medium, low and newest first
\* within one urgency, and the list is the first `limit` (10 when none is
\* given) records of that order.
C12_InsightsByPriorityThenNewest ==
    response.op = "insights" =>
        LET asked == {InsightRow(d) : d \in InsightsAsked}
            limit == IF response.query.limit.t = "number" THEN response.query.limit.n ELSE 10
            most == IF Cardinality(asked) < limit THEN Cardinality(asked) ELSE limit
        IN  /\ Len(report) = most
            /\ \A i \in 1..Len(report) : report[i] \in asked
            /\ \A i, j \in 1..Len(report) : i < j => NoLater(report[i], report[j])
            /\ \A i \in 1..Len(report) :
                  \A r \in asked : (\A k \in 1..Len(report) : report[k] # r)
                                      => NoLater(report[i], r)

\* the records of the window of a pulse answer, and those of them rated k
PulseWindow ==
    LET days == IF response.query.days.t = "number" THEN response.query.days.n ELSE 30
    IN  {d \in store : d.status # "closed" /\ d.createdAt >= 0 - days * 24}

Rated(k) == {d \in PulseWindow : d.rating = Num(k)}

RatedFiveFiveFourThreeOne ==
    /\ response.op = "pulse"
    /\ Cardinality(PulseWindow) = 5
    /\ Cardinality(Rated(5)) = 2 /\ Cardinality(Rated(4)) = 1
    /\ Cardinality(Rated(3)) = 1 /\ Cardinality(Rated(1)) = 1

\* C14 as stated: for a window whose records have ratings 5, 5, 4, 3, 1
\* getPulseMetrics returns CSAT 40.0, NPS 20.0, 2 promoters, 1 detractor and
\* 2 passives.
C14_PulseExampleAsStated ==
    RatedFiveFiveFourThreeOne =>
        /\ response.summary.csat = 400 /\ response.summary.nps = 200
        /\ response.summary.promoters = 2 /\ response.summary.detractors = 1
        /\ response.summary.passives = 2

\* C14: for a window whose records have ratings 5, 5, 4, 3, 1 getPulseMetrics
\* returns CSAT 60.0 (3 of 5 rated 4 or more), NPS 0.0 (2 promoters less 2
\* detractors), 2 promoters, 2 detractors and 1 passive.
C14_PulseExample ==
    RatedFiveFiveFourThreeOne =>
        /\ response.summary.csat = 600 /\ response.summary.nps = 0
        /\ response.summary.promoters = 2 /\ response.summary.detractors = 2
        /\ response.summary.passives = 1

C14_Witness ==
    /\ RatedFiveFiveFourThreeOne
    /\ response.summary.csat = 600 /\ response.summary.satisfied = 3
    /\ \E d \in store : d.createdAt < 0 - 30 * 24

\* the figures of a pulse answer over a non-empty window
PulseAnswered == response.op = "pulse" /\ PulseWindow # {}

\* v, in units of 1/scale, is num / den to the nearest
Nearest(v, num, den, scale) ==
    LET diff == v * den - num * scale
    IN  2 * (IF diff < 0 THEN 0 - diff ELSE diff) <= den

\* C15: over a non-empty window getPulseMetrics counts promoters as rating 5,
\* detractors as rating 3 or less and passives as rating 4, so promoters +
\* detractors + passives = total and satisfied = promoters + passives; CSAT is
\* 100 x satisfied / total and NPS 100 x (promoters - detractors) / total, each
\* to one decimal, CSAT within 0..100 and NPS within -100..100.
C15_PulseFigures ==
    PulseAnswered =>
        LET s == response.summary
            total == Cardinality(PulseWindow)
        IN  /\ s.totalFeedback = total
            /\ s.promoters = Cardinality(Rated(5))
            /\ s.detractors = Cardinality(Rated(1) \cup Rated(2) \cup Rated(3))
            /\ s.passives = Cardinality(Rated(4))
            /\ s.promoters + s.detractors + s.passives = total
            /\ s.satisfied = s.promoters + s.passives
            /\ Nearest(s.csat, 100 * s.satisfied, total, 10)
            /\ Nearest(s.nps, 100 * (s.promoters - s.detractors), total, 10)
            /\ s.csat \in 0..1000
            /\ s.nps \in -1000..1000

\* a window of three records, one of them a passive and two detractors:
\* CSAT 33.3, NPS -66.7
C15_Witness ==
    /\ PulseAnswered /\ Cardinality(PulseWindow) = 3
    /\ response.summary.passives = 1 /\ response.summary.detractors = 2
    /\ response.summary.csat = 333 /\ response.summary.nps = 0 - 667

\* the records a report is asked about by the range query of its answer: the
\* open ones of the range given, or of the last 30 days where none is given,
\* of the service type and branch given
RangeAsked ==
    LET q == response.query
    IN  {d \in store :
           /\ d.status # "closed"
           /\ q.startDate.t = "number" => d.createdAt >= q.startDate.n
           /\ q.endDate.t = "number" => d.createdAt <= q.endDate.n
           /\ (q.startDate.t # "number" /\ q.endDate.t # "number") => d.createdAt >= 0 - 30 * 24
           /\ q.serviceType.t = "string" => d.serviceType = q.serviceType
           /\ q.branch.t = "string" => d.branch = q.branch}

WithSentiment(s) == {d \in RangeAsked : d.analysis.sentiment = Word(s)}

Sentiments == {"positive", "neutral", "negative"}

RECURSIVE SumOfRows(_, _)
SumOfRows(rows, field) ==
    IF rows = <<>> THEN 0 ELSE Head(rows)[field] + SumOfRows(Tail(rows), field)

\* C16: over a non-empty set of matching records the percentages of the rows
\* of getSentimentOverview sum to 100 within 0.1, a sentiment has one row when
\* a record carries it and none otherwise, and the counts of the rows sum to
\* totalFeedback.
C16_OverviewRowsAddUp ==
    (response.op = "overview" /\ \E s \in Sentiments : WithSentiment(s) # {}) =>
        /\ response.code = 200
        /\ SumOfRows(report, "percentage") \in (10000 - 10)..(10000 + 10)
        /\ \A s \in Sentiments :
              Cardinality({i \in 1..Len(report) : report[i].sentiment = s})
                 = IF WithSentiment(s) # {} THEN 1 ELSE 0
        /\ \A i \in 1..Len(report) : report[i].sentiment \in Sentiments
        /\ SumOfRows(report, "count") = response.summary.totalFeedback

\* one positive, one neutral and one negative record: three rows of 33.33
C16_Witness ==
    /\ response.op = "overview" /\ Len(report) = 3
    /\ \A i \in 1..3 : report[i].count = 1 /\ report[i].percentage = 3333
    /\ response.summary.totalFeedback = 3

\* the stored records that are not closed
NotClosed == {d \in store : d.status # "closed"}

\* C17: no closed record contributes to a count, an average or a list of any
\* of the nine reports: whatever records were closed, updated or deleted
\* before, the answer of a report is an answer the report gives when the
\* closed records are not in the store at all.
C17_ClosedRecordsNeverCount ==
    [][/\ response'.op = "urgency" => getUrgencyDashboard(NotClosed)
       /\ response'.op = "insights" => getActionableInsights(NotClosed, response'.query)
       /\ response'.op = "pulse" => getPulseMetrics(NotClosed, response'.query)
       /\ response'.op = "overview" => getSentimentOverview(NotClosed, response'.query)
       /\ response'.op = "service" => getServiceTypeMetrics(NotClosed, response'.query)
       /\ response'.op = "trends" => getSentimentTrends(NotClosed, response'.query)
       /\ response'.op = "categories" => getCategoryInsights(NotClosed, response'.query)
       /\ response'.op = "emotions" => getEmotionAnalysis(NotClosed, response'.query)
       /\ response'.op = "branches" => getBranchComparison(NotClosed, response'.query)]_vars

\* the branch comparison has no row for Ikeja when both records of Ikeja are
\* closed, one of them by an update
C17_Witness ==
    /\ response.op = "branches" /\ Len(report) > 0
    /\ \A i \in 1..Len(report) : report[i].branch # "Ikeja"
    /\ Cardinality({d \in store : d.branch = Word("Ikeja") /\ d.status = "closed"}) = 2

\* the stored records created within the last 30 days
Last30Days == {d \in store : d.createdAt >= 0 - 30 * 24}

\* the answer gives no date
Undated == response'.query.startDate.t = "undefined" /\ response'.query.endDate.t = "undefined"

\* C18: with neither startDate nor endDate given, a report that takes a date
\* range counts only the records created within the last 30 days: its answer
\* is an answer it gives when the older records are not in the store at all.
C18_UndatedReportsCountLast30Days ==
    [][/\ (response'.op = "overview" /\ Undated)
            => getSentimentOverview(Last30Days, response'.query)
       /\ (response'.op = "service" /\ Undated)
            => getServiceTypeMetrics(Last30Days, response'.query)
       /\ (response'.op = "categories" /\ Undated)
            => getCategoryInsights(Last30Days, response'.query)
       /\ (response'.op = "emotions" /\ Undated)
            => getEmotionAnalysis(Last30Days, response'.query)
       /\ (response'.op = "branches" /\ Undated)
            => getBranchComparison(Last30Days, response'.query)]_vars

\* the days after which a record of an urgency is overdue
ThresholdDays == [critical |-> 1, high |-> 2, medium |-> 5, low |-> 14]

\* the record an answer of getFeedback shows, and the hours since it was made
Shown == CHOOSE d \in store : d.id = report[1].id

HoursSince(d) == 0 - d.createdAt

FeedbackShown == response.op = "get" /\ response.code = 200

\* C19 as stated: isOverdue is true exactly when the time from createdAt to
\* now is more than the threshold of the record's urgency.
C19_OverdueWhenTimeExceedsThreshold ==
    FeedbackShown =>
        (report[1].isOverdue
            <=> HoursSince(Shown) > 24 * ThresholdDays[Shown.analysis.urgency.a[1]])

\* C19: isOverdue is true exactly when the whole days from createdAt to now,
\* a started day not counted, are more than the threshold of the record's
\* urgency (critical 1, high 2, medium 5, low 14), that is from one full day
\* past the threshold on.
C19_OverdueWhenWholeDaysExceedThreshold ==
    FeedbackShown =>
        (report[1].isOverdue
            <=> HoursSince(Shown) >= 24 * (ThresholdDays[Shown.analysis.urgency.a[1]] + 1))

\* a record of urgency high made two and a half days ago is not overdue
C19_Witness ==
    /\ FeedbackShown /\ ~report[1].isOverdue
    /\ Shown.analysis.urgency = Word("high") /\ HoursSince(Shown) = 60
    /\ \E d \in store : /\ d.analysis.urgency = Word("high")
                        /\ HoursSince(d) = 72 /\ isOverdue(d)
    /\ \E d \in store : /\ d.analysis.urgency = Word("high")
                        /\ HoursSince(d) = 48 /\ ~isOverdue(d)

\* the records behind the row of branch b in an answer of getBranchComparison
OfBranch(b) ==
    {d \in RangeAsked : d.branch = Word(b) /\ d.analysis.sentiment.t = "string"}

\* C20: in every row of getBranchComparison performanceScore is
\* 0.7 x avgSentimentScore + 6 x avgRating to one decimal (80.0 for an average
\* score of 80 and an average rating of 4); the rows are in descending order
\* of performanceScore, topPerformer is the row of the highest score and
\* lowestPerformer the row of the lowest.
C20_BranchRowsScoredAndRanked ==
    response.op = "branches" =>
        /\ \A i \in 1..Len(report) :
              LET g == OfBranch(report[i].branch)
                  n == Cardinality(g)
                  scores == SumOver(g, [d \in g |-> d.analysis.sentimentScore.n])
                  ratings == SumOver(g, [d \in g |-> d.rating.n])
                  p == report[i].performanceScore.n
              IN  /\ n > 0
                  /\ Nearest(p, 7 * scores + 60 * ratings, 10 * n, 10)
                  /\ (scores = 80 * n /\ ratings = 4 * n) => p = 800
        /\ \A i, j \in 1..Len(report) :
              i < j => report[i].performanceScore.n >= report[j].performanceScore.n
        /\ Len(report) > 0 =>
              /\ response.summary.topPerformer = <<report[1]>>
              /\ response.summary.lowestPerformer = <<report[Len(report)]>>
              /\ \A i \in 1..Len(report) :
                    /\ response.summary.topPerformer[1].performanceScore.n
                          >= report[i].performanceScore.n
                    /\ response.summary.lowestPerformer[1].performanceScore.n
                          <= report[i].performanceScore.n

\* Ikeja with one record scores 86.0, Lekki with three records 53.3
C20_Witness ==
    /\ response.op = "branches" /\ Len(report) = 2
    /\ report[1].branch = "Ikeja" /\ report[1].performanceScore = Num(860)
    /\ report[2].branch = "Lekki" /\ report[2].totalFeedback = 3
    /\ report[2].performanceScore = Num(533)
    /\ response.summary.lowestPerformer = <<report[2]>>

(***************************************************************************)
(* The read path                                                           *)
(***************************************************************************)
ReportOps ==
    {"overview", "service", "trends", "categories", "emotions", "urgency", "pulse",
     "insights", "branches"}

\* C21: no report request changes the record store: over a step that answers
\* one of the nine reports, with any query, the set of stored records and
\* every field of every record stay as they were.
C21_ReportsLeaveStoreUnchanged ==
    [][response'.op \in ReportOps => store' = store]_vars

\* a report answered over a store that holds open and closed records
C21_Witness ==
    /\ response.op = "insights" /\ Len(report) > 1
    /\ \E d \in store : d.status = "closed"
    /\ \E d \in store : d.status = "pending"

(***************************************************************************)
(* More on validateAnalysisResult and getFallbackAnalysis                  *)
(***************************************************************************)
ValidatedObject == vPc = "done" /\ vInput.kind = "object" /\ ~vResult.threw

\* a score given as x comes out as y: a number of 0..100 as it is, a lower
\* one as 0, a higher one as 100, and the default d only for a missing field
ScoreKept(x, y, d) ==
    /\ (x.t = "number" /\ x.n >= 0 /\ x.n <= 100) => y = x
    /\ (x.t = "number" /\ x.n < 0) => y = Num(0)
    /\ (x.t = "number" /\ x.n > 100) => y = Num(100)
    /\ x.t = "undefined" => y = Num(d)

\* C22: validateAnalysisResult leaves a sentimentScore and a confidenceScore
\* that is a number of 0..100 unchanged, the value 0 included, maps a number
\* below 0 to 0 and one above 100 to 100, and puts the default (50 and 75)
\* only where the field is missing.
C22_ScoresInRangeKept ==
    ValidatedObject =>
        /\ ScoreKept(vInput.f.sentimentScore, vResult.value.f.sentimentScore, 50)
        /\ ScoreKept(vInput.f.confidenceScore, vResult.value.f.confidenceScore, 75)

\* C23: validateAnalysisResult never fails and is pure: for every value the
\* parse of the AI's JSON can give, null, other values that are no object and
\* objects whose actionableInsights is no string included, it returns without
\* throwing, and the object it was given is after the call as it was before.
\* (The code returns the object it was given, so that object after the call
\* is the value of the outcome.)
C23_ValidatorNeverThrowsNorModifies ==
    vPc = "done" => (~vResult.threw /\ vResult.value = vInput)

\* the records that are not closed and carry category c
Carrying(c) == {d \in NotClosed : \E i \in DOMAIN d.analysis.categories.a :
                                     d.analysis.categories.a[i] = c}

\* the minCount asked for, 1 when none is given
MinCountAsked ==
    IF response.query.minCount.t = "undefined" THEN 1
    ELSE DecimalValue(response.query.minCount.a)

\* C26: in getCategoryInsights a record contributes once to every category it
\* carries: the count of a row is the number of records that carry its
\* category; every row has count >= minCount (1 when none is given) and
\* positiveCount + negativeCount + neutralCount = count, its dominantSentiment
\* is positive when positiveCount >= negativeCount and negative otherwise, and
\* the rows are in descending order of count.
C26_CategoryRows ==
    response.op = "categories" =>
        /\ \A i \in DOMAIN report :
             LET r == report[i]
             IN  /\ r.count = Cardinality(Carrying(r.category))
                 /\ r.count >= MinCountAsked
                 /\ r.positiveCount + r.negativeCount + r.neutralCount = r.count
                 /\ r.dominantSentiment =
                        (IF r.positiveCount >= r.negativeCount THEN "positive" ELSE "negative")
        /\ \A i, j \in DOMAIN report : i < j => report[i].count >= report[j].count

\* the rating the thresholds give a score s, in tenths
RatingOf(s) ==
    IF s >= 800 THEN "Excellent" ELSE IF s >= 700 THEN "Good"
    ELSE IF s >= 600 THEN "Average" ELSE IF s >= 500 THEN "Needs Attention"
    ELSE "Critical"

\* C27: in getServiceTypeMetrics and getBranchComparison the performanceRating
\* of a row agrees with the avgSentimentScore of the same row: Excellent from
\* 80, Good from 70, Average from 60, Needs Attention from 50 and Critical
\* below; the rows of getServiceTypeMetrics are in descending order of
\* satisfactionScore.
C27_RatingAgreesWithReportedScore ==
    /\ response.op \in {"service", "branches"} =>
         \A i \in DOMAIN report :
            report[i].avgSentimentScore.t = "number" =>
                report[i].performanceRating = RatingOf(report[i].avgSentimentScore.n)
    /\ response.op = "service" =>
         \A i, j \in DOMAIN report :
            i < j => report[i].satisfactionScore >= report[j].satisfactionScore

\* the submission of request h passes the validators of the submitted fields
ValidSubmission(h) ==
    /\ ValidRating(hDoc[h].rating)
    /\ CommentValid[hDoc[h].comment]
    /\ ValidEnum(hDoc[h].serviceType, ServiceTypes)
    /\ (hDoc[h].serviceType = Word("Branch Visit") => ~Falsy(hDoc[h].branch))

\* C28: for every valid submission createFeedback stores one record with
\* status pending and answers success, whatever the AI service does: when the
\* request of a valid submission is over the answer is 201 and the store holds
\* its record, pending.
C28_ValidSubmissionAlwaysStored ==
    \A h \in Handlers :
        (hPc[h] = "done" /\ ValidSubmission(h)) =>
            /\ hRes[h].code = 201
            /\ \E d \in store : d.id = hDoc[h].id /\ d.status = "pending"

\* the closed records of the store
Closed == {d \in store : d.status = "closed"}

\* a step of getFeedback, getAllFeedback, updateFeedback or deleteFeedback:
\* one that answers and is no step of a createFeedback request
Operation(op) == response'.op = op /\ hPc' = hPc

\* C29: status closed is absorbing: on every step a closed record stays in
\* the store as it is (no update changes it, no delete removes it), no answer
\* of getFeedback or getAllFeedback shows it, and when every record stored is
\* closed getFeedback, updateFeedback and deleteFeedback answer 404 for every
\* record and getAllFeedback lists nothing.
C29_ClosedIsAbsorbing ==
    [][/\ \A d \in Closed :
            /\ d \in store'
            /\ (Operation("get") \/ Operation("list")) =>
                  \A i \in DOMAIN report' : report'[i].id # d.id
       /\ (Closed = store /\ (Operation("get") \/ Operation("update")
                               \/ Operation("delete"))) => response'.code = 404
       /\ (Closed = store /\ Operation("list")) => report' = <<>>]_vars

C29_Witness ==
    /\ \A id \in Ids : \E d \in Closed : d.id = id
    /\ response = Response("get", 404)

\* the stored records that carry the result of the heuristic fallback, which
\* its confidenceScore of 60 marks
ByFallback == {d \in store : d.analysed /\ d.analysis.confidenceScore = Num(60)}

\* C30: for every record the fallback classified, a rating of 2 or less gives
\* needsImmediateAction, a rating of 1 gives isUrgent, and a rating of 3 or
\* more never gives needsImmediateAction; for every record isUrgent holds iff
\* the urgency is high or critical, and needsImmediateAction iff the urgency is
\* critical or the sentiment is negative with a rating of 2 or less.
C30_VirtualsOfFallbackRecords ==
    /\ \A d \in ByFallback :
          /\ d.rating.n <= 2 => needsImmediateAction(d)
          /\ d.rating.n = 1 => isUrgent(d)
          /\ d.rating.n >= 3 => ~needsImmediateAction(d)
    /\ \A d \in store :
          /\ isUrgent(d) <=> d.analysis.urgency \in {Word("high"), Word("critical")}
          /\ needsImmediateAction(d) <=>
                \/ d.analysis.urgency = Word("critical")
                \/ (d.analysis.sentiment = Word("negative") /\ d.rating.n <= 2)

C30_Witness ==
    /\ \E d \in ByFallback : d.rating = Num(1) /\ isUrgent(d) /\ needsImmediateAction(d)
    /\ \E d \in ByFallback : d.rating = Num(5) /\ ~isUrgent(d) /\ ~needsImmediateAction(d)

=============================================================================
